---- MODULE Spec2Model ----
(***************************************************************************)
(* The safe game: the reducer of the safe state machine (reduce,           *)
(* spawnSafe), the dispatch loop, the destruct timer scheduling and the    *)
(* UI handlers that feed events to the dispatch loop.                      *)
(*                                                                         *)
(* Optional fields (pinHash?, destructAt?, ...) are sequences of length    *)
(* at most one: None is "undefined", Some(v) is the value v.               *)
(* Times are epoch milliseconds.  A draw of the random source is the       *)
(* integer d standing for the number d/100 of [0,1).                       *)
(***************************************************************************)
EXTENDS Integers, Sequences, FiniteSets, TLC

VARIABLES
    snapshot,     \* the module-level `snapshot` of main.ts
    log,          \* history: the reduce calls of the last handler, in order
    closeInfo,    \* history: the last applied close and what followed it
    now,          \* Date.now()
    timerId,      \* the armed destruct timeout: None or Some(deadline)
    timeouts,     \* the deadlines of the timeouts pending in the browser
    spawned,      \* number of spawnSafe calls so far (source of fresh ids)
    stored,       \* localStorage[STORAGE_KEY]: None or Some(persisted record)
    settingsOpen, \* a settings dialog is on screen
    closeFlow,    \* a close flow is waiting in a PIN prompt or for the digest
    pinChecks,    \* per PIN, the open handlers waiting for its digest
    destructTimer, \* a startDestructTimer call: its closure, and its history
    readers,      \* the FileReaders still reading: the id of the safe each was started on
    overlay       \* the image preview overlay is attached to document.body

vars == <<snapshot, log, closeInfo, now, timerId, timeouts, spawned, stored,
          settingsOpen, closeFlow, pinChecks,
          destructTimer, readers, overlay>>

appVars == <<now, timerId, timeouts, stored, settingsOpen, closeFlow, pinChecks,
             destructTimer, readers, overlay>>

-----------------------------------------------------------------------------
(* Bounds of the model *)

MaxLimit == 2      \* pinAttemptsLimit ranges over 1..MaxLimit
MaxMinutes == 1    \* autodestructMinutes ranges over 1..MaxMinutes
MaxSpawns == 1     \* spawnSafe calls after the first one
MaxInFlight == 1   \* open handlers waiting for a digest at once

(* Program constants *)

MsPerMinute == 60000      \* minutes * 60 * 1000
SurvivalThreshold == 10   \* random() < 0.1, in hundredths
SCHEMA_VERSION == 1

-----------------------------------------------------------------------------
(* Values *)

None == << >>
Some(v) == << v >>
IsSome(o) == o # None
Val(o) == o[1]

Langs == {"en", "pl"}
Pins == {"1234", "0000"}   \* the PINs typed into the closed safe
ClosePins == {"1234"}      \* the PINs a safe is closed with
Texts == {"", "secret"}
Images == {"data:image"}
Chances == {100}           \* the percentages typed into the settings form
Draws == {0, 9, 10, 99}

MaxAttempts == MaxLimit + 1

\* the instants the clock is observed at: the start, and for each minute
\* of the longest timer its boundary and the millisecond before it
Times ==
    {0} \cup UNION {{k * MsPerMinute - 1, k * MsPerMinute} : k \in 1..MaxMinutes}

hashPin(pin) == "sha256:" \o pin

Hashes == {hashPin(p) : p \in Pins}

Ev(type) == [type |-> type, pinHash |-> None, now |-> None]
CloseEv(pinHash, t) == [type |-> "close", pinHash |-> Some(pinHash), now |-> Some(t)]
TickEv(t) == [type |-> "tick", pinHash |-> None, now |-> Some(t)]

-----------------------------------------------------------------------------
(* The safe state machine *)

spawnSafe(id) ==
    [id |-> id,
     content |-> [text |-> "", imageDataUrl |-> None],
     settings |-> [language |-> "en",
                   survivalEnabled |-> FALSE,
                   survivalChance |-> None,
                   autodestructMinutes |-> None,
                   pinAttemptsLimit |-> None],
     runtime |-> [state |-> "open",
                  pinHash |-> None,
                  attemptsMade |-> 0,
                  closedAt |-> None,
                  destructAt |-> None,
                  explosionResult |-> None]]

\* what one call of reduce gives back
Ret(s, emitted) ==
    [snapshot |-> s, emitted |-> emitted, returned |-> TRUE,
     drew |-> FALSE, spawned |-> FALSE]

\* faulty variant: the attempts counter is carried over into the open safe
reduceOpenKeepsAttempts(s) ==
    IF s.runtime.state # "closed" THEN Ret(s, << >>)
    ELSE Ret([s EXCEPT !.runtime =
                 [state |-> "open", pinHash |-> None,
                  attemptsMade |-> s.runtime.attemptsMade,
                  closedAt |-> None, destructAt |-> None,
                  explosionResult |-> None]],
             << >>)

\* faulty variant: the runtime is spread, so the stored PIN digest stays
reduceOpenKeepsPin(s) ==
    IF s.runtime.state # "closed" THEN Ret(s, << >>)
    ELSE Ret([s EXCEPT !.runtime =
                 [state |-> "open", pinHash |-> s.runtime.pinHash,
                  attemptsMade |-> 0, closedAt |-> None, destructAt |-> None,
                  explosionResult |-> None]],
             << >>)

reduceOpen(s) ==
    IF s.runtime.state # "closed" THEN Ret(s, << >>)
    ELSE Ret([s EXCEPT !.runtime =
                 [state |-> "open", pinHash |-> None, attemptsMade |-> 0,
                  closedAt |-> None, destructAt |-> None,
                  explosionResult |-> None]],
             << >>)

\* faulty variant: the minutes are converted as if they were seconds
reduceCloseSeconds(s, event) ==
    IF s.runtime.state # "open" THEN Ret(s, << >>)
    ELSE LET closedAt == Val(event.now)
             minutes == s.settings.autodestructMinutes
             destructAt == IF minutes # None
                           THEN Some(closedAt + Val(minutes) * 1000)
                           ELSE None
         IN Ret([s EXCEPT !.runtime =
                    [state |-> "closed", pinHash |-> event.pinHash,
                     attemptsMade |-> 0, closedAt |-> Some(closedAt),
                     destructAt |-> destructAt, explosionResult |-> None]],
                << >>)

\* faulty variant: the state guard is missing, a closed safe is closed again
reduceCloseUnguarded(s, event) ==
    LET closedAt == Val(event.now)
        minutes == s.settings.autodestructMinutes
        destructAt == IF minutes # None
                      THEN Some(closedAt + Val(minutes) * MsPerMinute)
                      ELSE None
    IN Ret([s EXCEPT !.runtime =
               [state |-> "closed", pinHash |-> event.pinHash,
                attemptsMade |-> 0, closedAt |-> Some(closedAt),
                destructAt |-> destructAt, explosionResult |-> None]],
           << >>)

\* faulty variant: a missing minutes setting is read as one minute
reduceCloseAlwaysArms(s, event) ==
    IF s.runtime.state # "open" THEN Ret(s, << >>)
    ELSE LET closedAt == Val(event.now)
             minutes == s.settings.autodestructMinutes
             destructAt == IF minutes # None
                           THEN Some(closedAt + Val(minutes) * MsPerMinute)
                           ELSE Some(closedAt + MsPerMinute)
         IN Ret([s EXCEPT !.runtime =
                    [state |-> "closed", pinHash |-> event.pinHash,
                     attemptsMade |-> 0, closedAt |-> Some(closedAt),
                     destructAt |-> destructAt, explosionResult |-> None]],
                << >>)

reduceClose(s, event) ==
    IF s.runtime.state # "open" THEN Ret(s, << >>)
    ELSE LET closedAt == Val(event.now)
             minutes == s.settings.autodestructMinutes
             destructAt == IF minutes # None
                           THEN Some(closedAt + Val(minutes) * MsPerMinute)
                           ELSE None
         IN Ret([s EXCEPT !.runtime =
                    [state |-> "closed", pinHash |-> event.pinHash,
                     attemptsMade |-> 0, closedAt |-> Some(closedAt),
                     destructAt |-> destructAt, explosionResult |-> None]],
                << >>)

\* faulty variant: wrongPin counts whatever the state of the safe
reduceWrongPinAnyState(s) ==
    LET attempts == s.runtime.attemptsMade + 1
        updated == [s EXCEPT !.runtime.attemptsMade = attempts]
        limit == s.settings.pinAttemptsLimit
    IN IF limit # None /\ attempts >= Val(limit)
       THEN Ret(updated, << Ev("explode") >>)
       ELSE Ret(updated, << >>)

\* faulty variant: the limit is compared with > instead of >=
reduceWrongPinLate(s) ==
    IF s.runtime.state # "closed" THEN Ret(s, << >>)
    ELSE LET attempts == s.runtime.attemptsMade + 1
             updated == [s EXCEPT !.runtime.attemptsMade = attempts]
             limit == s.settings.pinAttemptsLimit
         IN IF limit # None /\ attempts > Val(limit)
            THEN Ret(updated, << Ev("explode") >>)
            ELSE Ret(updated, << >>)

reduceWrongPin(s) ==
    IF s.runtime.state # "closed" THEN Ret(s, << >>)
    ELSE LET attempts == s.runtime.attemptsMade + 1
             updated == [s EXCEPT !.runtime.attemptsMade = attempts]
             limit == s.settings.pinAttemptsLimit
         IN IF limit # None /\ attempts >= Val(limit)
            THEN Ret(updated, << Ev("explode") >>)
            ELSE Ret(updated, << >>)

\* faulty variant: the deadline is compared with > instead of >=
reduceTickStrict(s, event) ==
    IF s.runtime.state # "closed" THEN Ret(s, << >>)
    ELSE LET destructAt == s.runtime.destructAt
         IN IF destructAt # None /\ Val(event.now) > Val(destructAt)
            THEN Ret(s, << Ev("explode") >>)
            ELSE Ret(s, << >>)

reduceTick(s, event) ==
    IF s.runtime.state # "closed" THEN Ret(s, << >>)
    ELSE LET destructAt == s.runtime.destructAt
         IN IF destructAt # None /\ Val(event.now) >= Val(destructAt)
            THEN Ret(s, << Ev("explode") >>)
            ELSE Ret(s, << >>)

\* faulty variant: the roll is made whether or not survival is enabled
reduceExplodeAlwaysRolls(s, draw, newId) ==
    IF draw < SurvivalThreshold
    THEN [Ret(s, << Ev("survive") >>) EXCEPT !.drew = s.settings.survivalEnabled]
    ELSE [Ret(spawnSafe(newId), << >>) EXCEPT
            !.drew = s.settings.survivalEnabled, !.spawned = TRUE]

\* faulty variant: the new safe inherits the settings of the exploded one
reduceExplodeKeepsSettings(s, draw, newId) ==
    LET fresh == [spawnSafe(newId) EXCEPT !.settings = s.settings]
    IN IF s.settings.survivalEnabled
       THEN IF draw < SurvivalThreshold
            THEN [Ret(s, << Ev("survive") >>) EXCEPT !.drew = TRUE]
            ELSE [Ret(fresh, << >>) EXCEPT !.drew = TRUE, !.spawned = TRUE]
       ELSE [Ret(fresh, << >>) EXCEPT !.spawned = TRUE]

\* faulty variant: a safe that does not survive is left behind in the
\* destroyed state instead of being replaced by a spawned one
reduceExplodeDestroys(s, draw, newId) ==
    LET wreck == [s EXCEPT !.runtime = [spawnSafe(newId).runtime EXCEPT
                                          !.state = "destroyed"]]
    IN IF s.settings.survivalEnabled
       THEN IF draw < SurvivalThreshold
            THEN [Ret(s, << Ev("survive") >>) EXCEPT !.drew = TRUE]
            ELSE [Ret(wreck, << >>) EXCEPT !.drew = TRUE]
       ELSE Ret(wreck, << >>)

\* random() is only called when survivalEnabled holds (&& short-circuits)
reduceExplode(s, draw, newId) ==
    IF s.settings.survivalEnabled
    THEN IF draw < SurvivalThreshold
         THEN [Ret(s, << Ev("survive") >>) EXCEPT !.drew = TRUE]
         ELSE [Ret(spawnSafe(newId), << >>) EXCEPT !.drew = TRUE, !.spawned = TRUE]
    ELSE [Ret(spawnSafe(newId), << >>) EXCEPT !.spawned = TRUE]

\* faulty variant: the deadline is left in place
reduceSurviveKeepsTimer(s) ==
    IF s.runtime.state # "closed" THEN Ret(s, << >>)
    ELSE Ret([s EXCEPT !.runtime.attemptsMade = 0], << >>)

\* faulty variant: the attempts counter is not reset
reduceSurviveKeepsAttempts(s) ==
    IF s.runtime.state # "closed" THEN Ret(s, << >>)
    ELSE Ret([s EXCEPT !.runtime.destructAt = None], << >>)

reduceSurvive(s) ==
    IF s.runtime.state # "closed" THEN Ret(s, << >>)
    ELSE Ret([s EXCEPT !.runtime.attemptsMade = 0,
                       !.runtime.destructAt = None],
             << >>)

\* The switch has no case for any other event type (startNew): the function
\* falls off its end and returns undefined instead of a pair.
reduce(s, event, draw, newId) ==
    CASE event.type = "open" -> reduceOpen(s)
      [] event.type = "close" -> reduceClose(s, event)
      [] event.type = "wrongPin" -> reduceWrongPin(s)
      [] event.type = "tick" -> reduceTick(s, event)
      [] event.type = "explode" -> reduceExplode(s, draw, newId)
      [] event.type = "survive" -> reduceSurvive(s)
      [] OTHER -> [Ret(s, << >>) EXCEPT !.returned = FALSE]

-----------------------------------------------------------------------------
(* Persistence *)

(* A stored value is None (no item under the key) or Some(text).  A text   *)
(* either parses as JSON to the document `value`, or does not parse.  A    *)
(* JSON object is a function from the keys it has to their values.         *)

OptionalKeys ==
    {"imageDataUrl", "survivalChance", "autodestructMinutes",
     "pinAttemptsLimit", "pinHash", "closedAt", "destructAt",
     "explosionResult"}

\* JSON.stringify of an object: a property whose value is undefined is left out
jsonObject(obj) ==
    [k \in {key \in DOMAIN obj : ~(key \in OptionalKeys /\ obj[key] = None)} |->
        IF k \in OptionalKeys THEN Val(obj[k]) ELSE obj[k]]

jsonSnapshot(s) ==
    [id |-> s.id, content |-> jsonObject(s.content),
     settings |-> jsonObject(s.settings), runtime |-> jsonObject(s.runtime)]

stringify(doc) == [parses |-> TRUE, value |-> doc]

\* faulty variant: optional properties are read with `|| undefined`, so a
\* stored 0 or "" comes back as undefined
readObjectFalsy(doc, keys) ==
    [k \in keys |->
        IF k \in OptionalKeys
        THEN LET falsy == IF k \in {"imageDataUrl", "pinHash", "explosionResult"}
                          THEN "" ELSE 0
             IN IF k \in DOMAIN doc /\ doc[k] # falsy
                THEN Some(doc[k]) ELSE None
        ELSE doc[k]]

\* the properties of a parsed object as the program reads them: a missing
\* property reads as undefined
readObject(doc, keys) ==
    [k \in keys |->
        IF k \in OptionalKeys
        THEN IF k \in DOMAIN doc THEN Some(doc[k]) ELSE None
        ELSE doc[k]]

\* JSON values that are no objects: null, a number, an array
JsonNull == [json |-> "null"]
JsonNumber == [json |-> "number"]
JsonArray == [json |-> "array"]

\* the value has the parts of a SafeSnapshot
HasShape(data) ==
    /\ {"id", "content", "settings", "runtime"} \subseteq DOMAIN data
    /\ "state" \in DOMAIN data.runtime

\* `data as SafeSnapshot`: a cast, nothing is looked at; a value of another
\* shape is handed on as it is
asSnapshot(data) ==
    IF ~HasShape(data) THEN data
    ELSE
    [id |-> data.id,
     content |-> readObject(data.content, {"text", "imageDataUrl"}),
     settings |-> readObject(data.settings,
                             {"language", "survivalEnabled", "survivalChance",
                              "autodestructMinutes", "pinAttemptsLimit"}),
     runtime |-> readObject(data.runtime,
                            {"state", "pinHash", "attemptsMade", "closedAt",
                             "destructAt", "explosionResult"})]

saveSnapshot(s) ==
    Some(stringify([v |-> SCHEMA_VERSION, data |-> jsonSnapshot(s)]))

\* the versions the migration table has an entry for; the entry for version
\* 0 returns its argument
Migrations == {0}

RECURSIVE migrated(_, _)
\* lines 66-71: None when a step is missing
migrated(version, data) ==
    IF version >= SCHEMA_VERSION THEN Some(data)
    ELSE IF version \notin Migrations THEN None
    ELSE migrated(version + 1, data)

\* faulty variant: a record of any older version is taken as it is
loadSnapshotUnmigrated(raw) ==
    IF raw = None THEN None
    ELSE IF ~Val(raw).parses THEN None
    ELSE LET parsed == Val(raw).value
             wrapped == "v" \in DOMAIN parsed /\ "data" \in DOMAIN parsed
             data == IF wrapped THEN parsed.data ELSE parsed
         IN Some(asSnapshot(data))

loadSnapshot(raw) ==
    IF raw = None THEN None
    ELSE IF ~Val(raw).parses THEN None   \* JSON.parse throws, caught
    ELSE IF Val(raw).value = JsonNull THEN None   \* parsed.v throws, caught
    ELSE LET parsed == Val(raw).value
             wrapped == "v" \in DOMAIN parsed /\ "data" \in DOMAIN parsed
             version == IF wrapped THEN parsed.v ELSE 0
             data == IF wrapped THEN parsed.data ELSE parsed
             final == migrated(version, data)
         IN IF final = None THEN None ELSE Some(asSnapshot(Val(final)))

-----------------------------------------------------------------------------
(* The dispatch loop and the destruct timer.  An app record carries the     *)
(* module-level state of main.ts through one handler: snapshot, timerId,   *)
(* the stored record, the draws the random source will return, the number  *)
(* of spawnSafe calls, and the reduce calls made so far.                   *)

NeverClosed == [closed |-> FALSE, minutes |-> None, survived |-> FALSE]

\* history of the closed cycle: an applied close starts it with the minutes
\* setting it read, an applied survive marks it
cycleAfter(info, event, s) ==
    IF event.type = "close" /\ s.runtime.state = "open"
    THEN [closed |-> TRUE, minutes |-> s.settings.autodestructMinutes,
          survived |-> FALSE]
    ELSE IF event.type = "survive" /\ s.runtime.state = "closed"
    THEN [info EXCEPT !.survived = TRUE]
    ELSE info

\* one reduce call: its arguments, its result, the cycle it was made in, and
\* the number of events left waiting in the queues once it has returned
Step(event, before, r, cycle) ==
    [event |-> event, before |-> before, after |-> r.snapshot,
     emitted |-> r.emitted, returned |-> r.returned,
     draw |-> None, cycle |-> cycle, pending |-> 0]

\* a call of saveSnapshot, scheduleTimer or render: the snapshot it sees and
\* the number of events waiting in the queues at that moment
Effect(kind, app) ==
    [event |-> Ev(kind), before |-> app.snapshot, after |-> app.snapshot,
     emitted |-> << >>, returned |-> TRUE,
     draw |-> None, cycle |-> app.cycle, pending |-> app.pending]

RECURSIVE drain(_, _)
\* faulty variant: the snapshot is saved inside the loop, after each reduce
drainSavingEachStep(app, queue) ==
    IF queue = << >> THEN app
    ELSE LET e == Head(queue)
             needDraw == e.type = "explode" /\ app.snapshot.settings.survivalEnabled
         IN IF needDraw /\ app.draws = << >> THEN [app EXCEPT !.starved = TRUE]
            ELSE LET draw == IF needDraw THEN Head(app.draws) ELSE 0
                     r == reduce(app.snapshot, e, draw, app.spawned)
                     left == app.pending - 1 + Len(r.emitted)
                     step == [Step(e, app.snapshot, r, app.cycle) EXCEPT
                                !.draw = IF r.drew THEN Some(draw) ELSE None,
                                !.pending = left]
                     next == [app EXCEPT
                                !.snapshot = r.snapshot,
                                !.draws = IF r.drew THEN Tail(@) ELSE @,
                                !.spawned = IF r.spawned THEN @ + 1 ELSE @,
                                !.cycle = cycleAfter(@, e, app.snapshot),
                                !.pending = left,
                                !.stored = saveSnapshot(r.snapshot),
                                !.steps = Append(@, step)]
                 IN IF ~r.returned
                    THEN [app EXCEPT !.threw = TRUE, !.steps = Append(@, step)]
                    ELSE drain([next EXCEPT
                                  !.steps = Append(@, Effect("saveSnapshot", next))],
                               Tail(queue) \o r.emitted)

\* lines 12-18: the queue is drained first in, first out, each event reduced
\* against the current snapshot
drain(app, queue) ==
    IF queue = << >> THEN app
    ELSE LET e == Head(queue)
             needDraw == e.type = "explode" /\ app.snapshot.settings.survivalEnabled
         IN IF needDraw /\ app.draws = << >> THEN [app EXCEPT !.starved = TRUE]
            ELSE LET draw == IF needDraw THEN Head(app.draws) ELSE 0
                     r == reduce(app.snapshot, e, draw, app.spawned)
                     left == app.pending - 1 + Len(r.emitted)
                     step == [Step(e, app.snapshot, r, app.cycle) EXCEPT
                                !.draw = IF r.drew THEN Some(draw) ELSE None,
                                !.pending = left]
                 IN IF ~r.returned
                    THEN \* destructuring undefined throws: the handler ends here
                         [app EXCEPT !.threw = TRUE, !.steps = Append(@, step)]
                    ELSE drain([app EXCEPT
                                  !.snapshot = r.snapshot,
                                  !.draws = IF r.drew THEN Tail(@) ELSE @,
                                  !.spawned = IF r.spawned THEN @ + 1 ELSE @,
                                  !.cycle = cycleAfter(@, e, app.snapshot),
                                  !.pending = left,
                                  !.steps = Append(@, step)],
                               Tail(queue) \o r.emitted)

RECURSIVE dispatch(_, _, _)
RECURSIVE scheduleTimer(_, _)

\* line 20: saveSnapshot(snapshot).  localStorage.setItem throws when the
\* quota is exceeded; saveSnapshot does not catch it
saved(app) ==
    IF app.quota
    THEN [app EXCEPT !.threw = TRUE,
                     !.steps = Append(@, [Effect("saveSnapshot", app)
                                            EXCEPT !.returned = FALSE])]
    ELSE [app EXCEPT !.stored = saveSnapshot(app.snapshot),
                     !.steps = Append(@, Effect("saveSnapshot", app))]

\* line 22: render()
rendered(app) ==
    IF app.starved \/ app.threw THEN app
    ELSE [app EXCEPT !.steps = Append(@, Effect("render", app))]

\* lines 21-22: scheduleTimer and render, not reached when line 20 threw
afterSave(app, t) ==
    IF app.threw THEN app ELSE rendered(scheduleTimer(app, t))

\* lines 12-22: the queue loop, then saveSnapshot, scheduleTimer, render
dispatch(app, event, t) ==
    LET d == drain([app EXCEPT !.pending = @ + 1], << event >>)
    IN IF d.threw \/ d.starved THEN d
       ELSE afterSave(saved(d), t)

\* faulty variant: the previous timeout is cancelled only on the closed branch
scheduleTimerClearsWhenClosed(app, t) ==
    LET logged == [app EXCEPT !.steps = Append(@, Effect("scheduleTimer", app))]
        cleared == [logged EXCEPT
                      !.timerId = None,
                      !.timeouts = IF app.timerId # None
                                   THEN @ \ {Val(app.timerId)} ELSE @]
        rt == app.snapshot.runtime
    IN IF rt.state = "closed" /\ rt.destructAt # None
       THEN IF Val(rt.destructAt) - t <= 0
            THEN dispatch(cleared, TickEv(t), t)
            ELSE [cleared EXCEPT !.timerId = rt.destructAt,
                                 !.timeouts = @ \cup {Val(rt.destructAt)}]
       ELSE logged

\* faulty variant: clearTimeout is never called, timerId is just overwritten
scheduleTimerKeepsOld(app, t) ==
    LET cleared == [app EXCEPT
                      !.timerId = None,
                      !.steps = Append(@, Effect("scheduleTimer", app))]
        rt == app.snapshot.runtime
    IN IF rt.state = "closed" /\ rt.destructAt # None
       THEN IF Val(rt.destructAt) - t <= 0
            THEN dispatch(cleared, TickEv(t), t)
            ELSE [cleared EXCEPT !.timerId = rt.destructAt,
                                 !.timeouts = @ \cup {Val(rt.destructAt)}]
       ELSE cleared

\* faulty variant: a deadline already past is handed to setTimeout as well
scheduleTimerAlwaysArms(app, t) ==
    LET cleared == [app EXCEPT
                      !.timerId = None,
                      !.timeouts = IF app.timerId # None
                                   THEN @ \ {Val(app.timerId)} ELSE @,
                      !.steps = Append(@, Effect("scheduleTimer", app))]
        rt == app.snapshot.runtime
    IN IF rt.state = "closed" /\ rt.destructAt # None
       THEN [cleared EXCEPT !.timerId = rt.destructAt,
                            !.timeouts = @ \cup {Val(rt.destructAt)}]
       ELSE cleared

\* faulty variant: a timeout already armed for this deadline is taken to be
\* still pending and is not armed again
scheduleTimerTrustsTimerId(app, t) ==
    LET cleared == [app EXCEPT
                      !.timerId = None,
                      !.timeouts = IF app.timerId # None
                                   THEN @ \ {Val(app.timerId)} ELSE @,
                      !.steps = Append(@, Effect("scheduleTimer", app))]
        rt == app.snapshot.runtime
    IN IF rt.state = "closed" /\ rt.destructAt # None
       THEN IF app.timerId = rt.destructAt
            THEN [app EXCEPT !.steps = Append(@, Effect("scheduleTimer", app))]
            ELSE IF Val(rt.destructAt) - t <= 0
            THEN dispatch(cleared, TickEv(t), t)
            ELSE [cleared EXCEPT !.timerId = rt.destructAt,
                                 !.timeouts = @ \cup {Val(rt.destructAt)}]
       ELSE cleared

\* faulty variant: when a timeout was armed it is cleared and no new one is
\* armed
scheduleTimerClearsOnly(app, t) ==
    LET cleared == [app EXCEPT
                      !.timerId = None,
                      !.timeouts = IF app.timerId # None
                                   THEN @ \ {Val(app.timerId)} ELSE @,
                      !.steps = Append(@, Effect("scheduleTimer", app))]
        rt == app.snapshot.runtime
    IN IF app.timerId = None /\ rt.state = "closed" /\ rt.destructAt # None
       THEN IF Val(rt.destructAt) - t <= 0
            THEN dispatch(cleared, TickEv(t), t)
            ELSE [cleared EXCEPT !.timerId = rt.destructAt,
                                 !.timeouts = @ \cup {Val(rt.destructAt)}]
       ELSE cleared

\* clearTimeout(timerId) takes the armed timeout out of the pending ones,
\* setTimeout adds one
scheduleTimer(app, t) ==
    LET cleared == [app EXCEPT
                      !.timerId = None,
                      !.timeouts = IF app.timerId # None
                                   THEN @ \ {Val(app.timerId)} ELSE @,
                      !.steps = Append(@, Effect("scheduleTimer", app))]
        rt == app.snapshot.runtime
    IN IF rt.state = "closed" /\ rt.destructAt # None
       THEN IF Val(rt.destructAt) - t <= 0
            THEN dispatch(cleared, TickEv(t), t)
            ELSE [cleared EXCEPT !.timerId = rt.destructAt,
                                 !.timeouts = @ \cup {Val(rt.destructAt)}]
       ELSE cleared

\* module initialisation: lines 7-9 and 594-595, n being the first id
\* crypto.randomUUID has not handed out yet.  The first entry of the
\* log is the call of loadSnapshot: `returned` tells whether it gave a
\* snapshot, `after` is the snapshot the module starts with
startupWith(raw, t, draws, n) ==
    LET loaded == loadSnapshot(raw)
        s0 == IF loaded # None THEN Val(loaded) ELSE spawnSafe(n)
        fresh == IF "id" \in DOMAIN s0 /\ s0.id >= n THEN s0.id + 1 ELSE n
        blank == [snapshot |-> s0, timerId |-> None, timeouts |-> {},
                  stored |-> raw, spawned |-> fresh, draws |-> draws,
                  steps |-> << >>, pending |-> 0, quota |-> FALSE,
                  cycle |-> NeverClosed,
                  threw |-> FALSE, starved |-> FALSE]
        begun == [blank EXCEPT
                    !.steps = << [Effect("loadSnapshot", blank)
                                    EXCEPT !.returned = (loaded # None)] >>]
    IN IF "settings" \in DOMAIN s0
       THEN afterSave(saved(begun), t)
       ELSE \* snapshot.settings.language throws in line 8
            [begun EXCEPT !.spawned = n, !.threw = TRUE]

\* the first load of the page: no id has been handed out yet
startup(raw, t, draws) == startupWith(raw, t, draws, 0)

-----------------------------------------------------------------------------
(* startDestructTimer: the closure of one call.  destructAt is the field of *)
(* the runtime passed in, timeoutId the pending timeout (named by the time  *)
(* it is due), pending the timeouts the browser holds for this call,        *)
(* listeners the events onWake is registered for.  trace is history: the    *)
(* call, the events delivered to the page, the calls of the returned        *)
(* function and the invocations of onExplode, each with the time it         *)
(* happened at.                                                             *)

WakeEvents == {"visibilitychange", "focus"}

NotStarted ==
    [started |-> FALSE, destructAt |-> None, timeoutId |-> None,
     pending |-> {}, listeners |-> {}, trace |-> << >>]

Happened(T, type, t) ==
    [T EXCEPT !.trace = Append(@, [type |-> type, at |-> t])]

\* faulty variant: only the timeout is cancelled
cleanupKeepsListeners(T) ==
    [T EXCEPT !.timeoutId = None,
              !.pending = IF T.timeoutId # None
                          THEN @ \ {Val(T.timeoutId)} ELSE @]

cleanup(T) ==
    [T EXCEPT !.timeoutId = None,
              !.pending = IF T.timeoutId # None
                          THEN @ \ {Val(T.timeoutId)} ELSE @,
              !.listeners = @ \ WakeEvents]

\* faulty variant: the check does not look at the clock
checkAtAnyTime(T, t) ==
    IF T.destructAt # None
    THEN Happened(cleanup(T), "onExplode", t)
    ELSE T

check(T, t) ==
    IF T.destructAt # None /\ t >= Val(T.destructAt)
    THEN Happened(cleanup(T), "onExplode", t)
    ELSE T

schedule(T, t) ==
    LET delay == Val(T.destructAt) - t
    IN IF delay <= 0 THEN check(T, t)
       ELSE [T EXCEPT !.timeoutId = Some(t + delay),
                      !.pending = @ \cup {t + delay}]

onWake(T, t) == check(T, t)

startDestructTimer(destructAt, t) ==
    LET T0 == Happened([NotStarted EXCEPT !.started = TRUE,
                                          !.destructAt = destructAt],
                       "startDestructTimer", t)
    IN IF destructAt = None THEN T0
       ELSE [schedule(T0, t) EXCEPT !.listeners = @ \cup WakeEvents]

\* the function startDestructTimer returned
returnedCleanup(T) == IF T.destructAt = None THEN T ELSE cleanup(T)

-----------------------------------------------------------------------------
(* The running page *)

Handler(draws) ==
    [snapshot |-> snapshot, timerId |-> timerId, timeouts |-> timeouts,
     stored |-> stored, spawned |-> spawned, draws |-> draws,
     steps |-> << >>, pending |-> 0, quota |-> FALSE,
     cycle |-> closeInfo, threw |-> FALSE, starved |-> FALSE]

\* the callback of the timeout with deadline d runs: that timeout is no
\* longer pending
TimeoutHandler(draws, d) ==
    [Handler(draws) EXCEPT !.timeouts = @ \ {d}]

\* the state a handler leaves behind
Commit(app) ==
    /\ ~app.starved
    /\ app.spawned <= MaxSpawns + 1
    /\ app.snapshot.runtime.attemptsMade <= MaxAttempts
    /\ snapshot' = app.snapshot
    /\ timerId' = app.timerId
    /\ timeouts' = app.timeouts
    /\ stored' = app.stored
    /\ spawned' = app.spawned
    /\ log' = << >>
    /\ closeInfo' = app.cycle

\* dispatch(event) at the current time from the module state Start gives,
\* left behind as Finish says; the random source is asked for as many draws
\* as the handler consumes
Handling(Start(_), event, Finish(_)) ==
    LET r0 == dispatch(Start(<< >>), event, now)
    IN IF ~r0.starved THEN Finish(r0)
       ELSE \E a \in Draws :
               LET r1 == dispatch(Start(<< a >>), event, now)
               IN IF ~r1.starved THEN Finish(r1)
                  ELSE \E b \in Draws :
                          Finish(dispatch(Start(<< a, b >>), event, now))

Dispatching(event) == Handling(Handler, event, Commit)

\* faulty variant: a write in place that is not followed by saveSnapshot
MutateUnsaved(s) ==
    /\ snapshot' = s
    /\ log' = << >>
    /\ UNCHANGED <<closeInfo, now, timerId, timeouts, spawned, stored>>

\* a handler that writes fields of the snapshot in place and saves it
Mutate(s) ==
    /\ snapshot' = s
    /\ stored' = saveSnapshot(s)
    /\ log' = << >>
    /\ UNCHANGED <<closeInfo, now, timerId, timeouts, spawned>>

Init ==
    /\ snapshot = spawnSafe(0)
    /\ spawned = 1
    /\ stored = saveSnapshot(spawnSafe(0))
    /\ log = << >>
    /\ closeInfo = NeverClosed
    /\ now = 0
    /\ timerId = None
    /\ timeouts = {}
    /\ settingsOpen = FALSE
    /\ closeFlow = FALSE
    /\ pinChecks = [p \in Pins |-> 0]
    /\ destructTimer = NotStarted
    /\ readers = {}
    /\ overlay = FALSE

InFlight == pinChecks["1234"] + pinChecks["0000"]

\* renderOpen: textarea input
EditText ==
    /\ snapshot.runtime.state = "open"
    /\ \E text \in Texts :
          /\ text # snapshot.content.text
          /\ Mutate([snapshot EXCEPT !.content.text = text])
    /\ UNCHANGED <<settingsOpen, closeFlow, pinChecks,
                   destructTimer, readers, overlay>>

\* renderOpen: settings button
OpenSettings ==
    /\ snapshot.runtime.state = "open"
    /\ ~settingsOpen
    /\ settingsOpen' = TRUE
    /\ log' = << >>
    /\ UNCHANGED <<snapshot, closeInfo, now, timerId, timeouts, spawned, stored,
                   closeFlow, pinChecks,
                   destructTimer, readers, overlay>>

\* openSettings: language select change
ChangeLanguage ==
    /\ settingsOpen
    /\ \E lang \in Langs :
          /\ lang # snapshot.settings.language
          /\ Mutate([snapshot EXCEPT !.settings.language = lang])
    /\ UNCHANGED <<settingsOpen, closeFlow, pinChecks,
                   destructTimer, readers, overlay>>

\* what the form holds when it passes validation: every enabled row has a
\* value in range (an invalid form returns before anything is written)
SurvivalChoices ==
    {[enabled |-> FALSE, chance |-> None]} \cup
    {[enabled |-> TRUE, chance |-> Some(c)] : c \in Chances}
MinuteChoices == {None} \cup {Some(m) : m \in 1..MaxMinutes}
LimitChoices == {None} \cup {Some(n) : n \in 1..MaxLimit}

submitSettings(s, lang, auto, limit, surv) ==
    [s EXCEPT !.settings.language = lang,
              !.settings.autodestructMinutes = auto,
              !.settings.pinAttemptsLimit = limit,
              !.settings.survivalEnabled = surv.enabled,
              !.settings.survivalChance = surv.chance]

\* openSettings: form submit
SubmitSettings ==
    /\ settingsOpen
    /\ \E lang \in Langs, auto \in MinuteChoices, limit \in LimitChoices,
          surv \in SurvivalChoices :
          Mutate(submitSettings(snapshot, lang, auto, limit, surv))
    /\ settingsOpen' = FALSE
    /\ UNCHANGED <<closeFlow, pinChecks,
                   destructTimer, readers, overlay>>

\* openSettings: cancel button
CancelSettings ==
    /\ settingsOpen
    /\ settingsOpen' = FALSE
    /\ log' = << >>
    /\ UNCHANGED <<snapshot, closeInfo, now, timerId, timeouts, spawned, stored,
                   closeFlow, pinChecks,
                   destructTimer, readers, overlay>>

\* renderOpen: close button, up to the first PIN prompt
ClickClose ==
    /\ snapshot.runtime.state = "open"
    /\ ~closeFlow
    /\ closeFlow' = TRUE
    /\ log' = << >>
    /\ UNCHANGED <<snapshot, closeInfo, now, timerId, timeouts, spawned, stored,
                   settingsOpen, pinChecks,
                   destructTimer, readers, overlay>>

\* the close flow after both prompts agree and the digest is there
FinishClose ==
    /\ closeFlow
    /\ closeFlow' = FALSE
    /\ \E pin \in ClosePins : Dispatching(CloseEv(hashPin(pin), now))
    /\ UNCHANGED <<now, settingsOpen, pinChecks,
                   destructTimer, readers, overlay>>

\* the close flow cancelled, left empty, or the two PINs differ
AbandonClose ==
    /\ closeFlow
    /\ closeFlow' = FALSE
    /\ log' = << >>
    /\ UNCHANGED <<snapshot, closeInfo, now, timerId, timeouts, spawned, stored,
                   settingsOpen, pinChecks,
                   destructTimer, readers, overlay>>

\* renderClosed: open button, up to await hashPin(pin)
ClickOpen ==
    /\ snapshot.runtime.state = "closed"
    /\ InFlight < MaxInFlight
    /\ UNCHANGED <<destructTimer, readers, overlay>>
    /\ \E pin \in Pins : pinChecks' = [pinChecks EXCEPT ![pin] = @ + 1]
    /\ log' = << >>
    /\ UNCHANGED <<snapshot, closeInfo, now, timerId, timeouts, spawned, stored,
                   settingsOpen, closeFlow>>

\* faulty variant: any digest opens a safe that has a PIN
pinCheckEventAnyDigest(s, pin) ==
    IF s.runtime.pinHash # None THEN Ev("open") ELSE Ev("wrongPin")

\* renderClosed: open button, after the digest is there
pinCheckEvent(s, pin) ==
    IF Some(hashPin(pin)) = s.runtime.pinHash THEN Ev("open") ELSE Ev("wrongPin")

ResolvePinCheck ==
    /\ \E pin \in Pins :
          /\ pinChecks[pin] > 0
          /\ UNCHANGED <<destructTimer, readers, overlay>>
          /\ pinChecks' = [pinChecks EXCEPT ![pin] = @ - 1]
          /\ Dispatching(pinCheckEvent(snapshot, pin))
    /\ UNCHANGED <<now, settingsOpen, closeFlow>>

\* renderClosed: blow button
ClickBlow ==
    /\ snapshot.runtime.state = "closed"
    /\ Dispatching(Ev("explode"))
    /\ UNCHANGED <<now, settingsOpen, closeFlow, pinChecks,
                   destructTimer, readers, overlay>>

\* dispatch(tick) from the callback of the timeout with deadline d
Firing(d) ==
    Handling(LAMBDA draws : TimeoutHandler(draws, d), TickEv(now), Commit)

\* a pending timeout fires, at its deadline or later
TimerFire ==
    /\ \E d \in timeouts : now >= d /\ Firing(d)
    /\ UNCHANGED <<now, settingsOpen, closeFlow, pinChecks,
                   destructTimer, readers, overlay>>

\* window focus, or the document becoming visible
WakeUp ==
    /\ Dispatching(TickEv(now))
    /\ UNCHANGED <<now, settingsOpen, closeFlow, pinChecks,
                   destructTimer, readers, overlay>>

\* the page is loaded again: dialogs, prompts, pending digests and timeouts
\* of the old page are gone, the module starts from the stored item
PageReload ==
    /\ LET r0 == [startupWith(stored, now, << >>, spawned)
                    EXCEPT !.cycle = closeInfo]
       IN IF ~r0.starved THEN Commit(r0)
          ELSE \E a \in Draws :
                  Commit([startupWith(stored, now, << a >>, spawned)
                            EXCEPT !.cycle = closeInfo])
    /\ settingsOpen' = FALSE
    /\ closeFlow' = FALSE
    /\ UNCHANGED destructTimer
    /\ readers' = {}
    /\ overlay' = FALSE
    /\ pinChecks' = [p \in Pins |-> 0]
    /\ UNCHANGED now

\* time passes
AdvanceClock ==
    /\ \E t \in Times : t > now /\ now' = t
    /\ log' = << >>
    /\ UNCHANGED <<snapshot, closeInfo, timerId, timeouts, spawned, stored,
                   settingsOpen, closeFlow, pinChecks,
                   destructTimer, readers, overlay>>

Next ==
    \/ EditText
    \/ OpenSettings
    \/ ChangeLanguage
    \/ SubmitSettings
    \/ CancelSettings
    \/ ClickClose
    \/ FinishClose
    \/ AbandonClose
    \/ ClickOpen
    \/ ResolvePinCheck
    \/ ClickBlow
    \/ TimerFire
    \/ WakeUp
    \/ PageReload
    \/ AdvanceClock

Spec == Init /\ [][Next]_vars

-----------------------------------------------------------------------------
(* The reducer on its own: reduce and the drain loop applied to any        *)
(* snapshot of the SafeSnapshot type, with any event and any draw.         *)

AnyContent ==
    {[text |-> "", imageDataUrl |-> None],
     [text |-> "secret", imageDataUrl |-> Some("data:image")]}

AnySettings ==
    [language : Langs,
     survivalEnabled : BOOLEAN,
     survivalChance : {None} \cup {Some(c) : c \in Chances},
     autodestructMinutes : MinuteChoices,
     pinAttemptsLimit : LimitChoices]

AnyRuntime ==
    {spawnSafe(0).runtime} \cup
    {[state |-> "closed", pinHash |-> Some(hashPin(p)), attemptsMade |-> a,
      closedAt |-> Some(0), destructAt |-> d, explosionResult |-> None] :
        p \in ClosePins, a \in 0..MaxLimit,
        d \in {None} \cup {Some(m * MsPerMinute) : m \in 1..MaxMinutes}}

AnySnapshot ==
    {[id |-> 0, content |-> c, settings |-> st, runtime |-> rt] :
        c \in AnyContent, st \in AnySettings, rt \in AnyRuntime}

InitReduce ==
    /\ snapshot \in AnySnapshot
    /\ spawned = 1
    /\ stored = None
    /\ log = << >>
    /\ closeInfo = NeverClosed
    /\ now = 0
    /\ timerId = None
    /\ timeouts = {}
    /\ settingsOpen = FALSE
    /\ closeFlow = FALSE
    /\ pinChecks = [p \in Pins |-> 0]
    /\ destructTimer = NotStarted
    /\ readers = {}
    /\ overlay = FALSE

\* the handler's calls follow the log when the log is a run of fewer than
\* MaxAttempts wrongPin events that emitted nothing and this event is a
\* wrongPin too; otherwise they replace it
ExtendsRun(event) ==
    /\ event.type = "wrongPin"
    /\ Len(log) < MaxAttempts
    /\ \A i \in DOMAIN log :
          log[i].event.type = "wrongPin" /\ log[i].emitted = << >>

\* the loop of dispatch alone (lines 12-18), started with one event
DrainQueue(event) ==
    LET r0 == drain(Handler(<< >>), << event >>)
        Leave(r) ==
            /\ r.snapshot.runtime.attemptsMade <= MaxAttempts
            /\ r.spawned <= MaxSpawns + 1
            /\ snapshot' = r.snapshot
            /\ spawned' = r.spawned
            /\ log' = (IF ExtendsRun(event) THEN log \o r.steps ELSE r.steps)
            /\ closeInfo' = r.cycle
            /\ UNCHANGED appVars
    IN IF ~r0.starved THEN Leave(r0)
       ELSE \E a \in Draws : Leave(drain(Handler(<< a >>), << event >>))

DrainOpen == DrainQueue(Ev("open"))
DrainClose == \E h \in Hashes, t \in Times : DrainQueue(CloseEv(h, t))
DrainWrongPin == DrainQueue(Ev("wrongPin"))
DrainTick == \E t \in Times : DrainQueue(TickEv(t))
DrainExplode == DrainQueue(Ev("explode"))
DrainSurvive == DrainQueue(Ev("survive"))
DrainStartNew == DrainQueue(Ev("startNew"))

NextReduce ==
    \/ DrainOpen
    \/ DrainClose
    \/ DrainWrongPin
    \/ DrainTick
    \/ DrainExplode
    \/ DrainSurvive
    \/ DrainStartNew

SpecReduce == InitReduce /\ [][NextReduce]_vars

-----------------------------------------------------------------------------
(* Properties of the reducer, checked under SpecReduce.  They read the log: *)
(* log[i] is the i-th reduce call of the handlers the log covers.           *)

Emitted(step, type) == step.emitted = << Ev(type) >>

\* the first k calls of the log are wrongPin calls
WrongPinsUpTo(k) == \A i \in 1..k : log[i].event.type = "wrongPin"

\* C1: for a closed safe with attemptsMade = 0 and pinAttemptsLimit = N,
\* wrongPin dispatched N times in a row emits explode on the N-th wrongPin
\* and on none of the first N-1; with no pinAttemptsLimit, no wrongPin of
\* the row emits explode.
C1_WrongPinLimit ==
    \A k \in DOMAIN log :
       (/\ WrongPinsUpTo(k)
        /\ log[1].before.runtime.state = "closed"
        /\ log[1].before.runtime.attemptsMade = 0)
       => LET limit == log[1].before.settings.pinAttemptsLimit
          IN /\ limit = None => log[k].emitted = << >>
             /\ (limit # None /\ k < Val(limit)) => log[k].emitted = << >>
             /\ (limit # None /\ k = Val(limit)) => Emitted(log[k], "explode")

\* a row of two wrongPin on a closed safe with limit 2: the second explodes
C1_Witness ==
    /\ Len(log) >= 2
    /\ WrongPinsUpTo(2)
    /\ log[1].before.runtime.state = "closed"
    /\ log[1].before.runtime.attemptsMade = 0
    /\ log[1].before.settings.pinAttemptsLimit = Some(2)
    /\ log[1].emitted = << >>
    /\ Emitted(log[2], "explode")

C3_NoSurvivalWhenDisabled ==
    /\ \A i \in DOMAIN log :
          (log[i].event.type = "explode"
              /\ ~log[i].before.settings.survivalEnabled)
          => /\ log[i].emitted = << >>
             /\ log[i].after = spawnSafe(log[i].after.id)
             /\ log[i].after.id # log[i].before.id
    /\ ~snapshot.settings.survivalEnabled
       => \A d \in Draws :
             LET r == reduce(snapshot, Ev("explode"), d, spawned)
             IN r.emitted = << >> /\ r.snapshot = spawnSafe(spawned)

\* a closed safe with survival disabled and a stored chance of 100 exploded
C3_Witness ==
    \E i \in DOMAIN log :
       /\ log[i].event.type = "explode"
       /\ log[i].before.runtime.state = "closed"
       /\ ~log[i].before.settings.survivalEnabled
       /\ log[i].before.settings.survivalChance = Some(100)
       /\ log[i].after.runtime.state = "open"

\* the chance of survival in hundredths: survivalChance, 10 when unset
ChanceOf(s) ==
    IF s.settings.survivalChance = None THEN 10
    ELSE Val(s.settings.survivalChance)

\* C4: with settings.survivalEnabled true, explode with the draw d emits
\* survive if and only if d < survivalChance/100 (10 when no chance is
\* set); with survivalChance = 100 every explode survives.
C4_ChanceDecidesSurvival ==
    \A i \in DOMAIN log :
       (log[i].event.type = "explode" /\ log[i].before.settings.survivalEnabled)
       => /\ log[i].draw # None
          /\ Emitted(log[i], "survive") <=> Val(log[i].draw) < ChanceOf(log[i].before)

\* C5: when an explosion of a closed safe is survived (explode followed by
\* survive), the result is closed with attemptsMade = 0 and no destructAt,
\* and its id, content, settings, pinHash and closedAt are those from
\* before the explosion.
C5_SurviveFrame ==
    \A i \in DOMAIN log :
       (/\ log[i].event.type = "explode"
        /\ log[i].before.runtime.state = "closed"
        /\ Emitted(log[i], "survive"))
       => /\ i + 1 \in DOMAIN log
          /\ log[i + 1].event.type = "survive"
          /\ LET b == log[i].before
                 a == log[i + 1].after
             IN /\ a.runtime.state = "closed"
                /\ a.runtime.attemptsMade = 0
                /\ a.runtime.destructAt = None
                /\ a.id = b.id
                /\ a.content = b.content
                /\ a.settings = b.settings
                /\ a.runtime.pinHash = b.runtime.pinHash
                /\ a.runtime.closedAt = b.runtime.closedAt

\* a safe with content, attempts made and an armed timer survived
C5_Witness ==
    \E i \in DOMAIN log :
       /\ i + 1 \in DOMAIN log
       /\ log[i].event.type = "explode"
       /\ Emitted(log[i], "survive")
       /\ log[i].before.runtime.state = "closed"
       /\ log[i].before.runtime.attemptsMade > 0
       /\ log[i].before.runtime.destructAt # None
       /\ log[i].before.content.text = "secret"
       /\ log[i + 1].after.runtime.destructAt = None
       /\ log[i + 1].after.runtime.attemptsMade = 0

\* C6: after a survive, runtime.explosionResult is 'survived', and stays so
\* while the safe remains closed, until the next close clears it.
C6_SurvivedIsRecorded ==
    /\ \A i \in DOMAIN log :
          (log[i].event.type = "survive"
              /\ log[i].before.runtime.state = "closed")
          => log[i].after.runtime.explosionResult = Some("survived")
    /\ (snapshot.runtime.state = "closed" /\ closeInfo.survived)
       => snapshot.runtime.explosionResult = Some("survived")

\* the fields of a safe as spawnSafe makes it
FreshSafe(s) ==
    /\ s.runtime.state = "open"
    /\ s.content.text = ""
    /\ s.content.imageDataUrl = None
    /\ s.settings.language = "en"
    /\ s.settings.survivalEnabled = FALSE
    /\ s.settings.autodestructMinutes = None
    /\ s.settings.pinAttemptsLimit = None
    /\ s.runtime.attemptsMade = 0
    /\ s.runtime.pinHash = None
    /\ s.runtime.closedAt = None
    /\ s.runtime.destructAt = None

\* C7: an explode that is not survived leaves a fresh safe (open, no text,
\* no image, language 'en', survival disabled, no minutes, no limit,
\* attemptsMade 0, no pinHash, closedAt or destructAt) with another id; a
\* closed safe with pinAttemptsLimit 1 and survival disabled is in this
\* state after one dispatched wrongPin.
C7_ExplodedIsFresh ==
    /\ \A i \in DOMAIN log :
          (log[i].event.type = "explode" /\ ~Emitted(log[i], "survive"))
          => FreshSafe(log[i].after) /\ log[i].after.id # log[i].before.id
    /\ (/\ log # << >>
        /\ log[1].event.type = "wrongPin"
        /\ log[1].before.runtime.state = "closed"
        /\ log[1].before.settings.pinAttemptsLimit = Some(1)
        /\ ~log[1].before.settings.survivalEnabled)
       => /\ Len(log) = 2
          /\ log[2].event.type = "explode"
          /\ snapshot = log[2].after
          /\ FreshSafe(snapshot)
          /\ snapshot.id # log[1].before.id

\* one wrongPin on a customised closed safe with limit 1 left a fresh safe
C7_Witness ==
    /\ Len(log) = 2
    /\ log[1].event.type = "wrongPin"
    /\ log[1].before.runtime.state = "closed"
    /\ log[1].before.settings.pinAttemptsLimit = Some(1)
    /\ ~log[1].before.settings.survivalEnabled
    /\ log[1].before.settings.language = "pl"
    /\ log[1].before.settings.autodestructMinutes # None
    /\ log[1].before.content.text = "secret"
    /\ snapshot.runtime.state = "open"

-----------------------------------------------------------------------------
(* Properties of the running page, checked under Spec. *)

\* C8: in every snapshot reached from the spawned safe, runtime.pinHash is
\* defined if and only if runtime.state is closed.
C8_PinHashIffClosed ==
    (snapshot.runtime.pinHash # None) <=> (snapshot.runtime.state = "closed")

\* the safe was closed and opened again with its PIN
C8_Witness ==
    /\ closeInfo.closed
    /\ spawned = 1
    /\ snapshot.runtime.state = "open"
    /\ snapshot.runtime.pinHash = None

\* C9: runtime.destructAt is defined only when the safe is closed and
\* autodestructMinutes was set at the most recent close.
C9_DestructAtOnlyWhenArmed ==
    snapshot.runtime.destructAt # None
    => /\ snapshot.runtime.state = "closed"
       /\ closeInfo.closed
       /\ closeInfo.minutes # None

\* a safe closed with one minute set has its deadline
C9_Witness ==
    /\ snapshot.runtime.state = "closed"
    /\ closeInfo.minutes = Some(1)
    /\ snapshot.runtime.destructAt # None
    /\ Val(snapshot.runtime.destructAt)
          = Val(snapshot.runtime.closedAt) + MsPerMinute

\* a wake-up dispatch (tick at the current time) settles in this very state
TickSettlesHere ==
    LET r == dispatch(Handler(<< >>), TickEv(now), now)
    IN /\ ~r.starved
       /\ r.snapshot = snapshot
       /\ r.timerId = timerId
       /\ r.stored = stored

\* C10: once a dispatch has settled, a closed safe with a pinAttemptsLimit
\* has attemptsMade strictly below the limit, whatever the interleaving of
\* PIN checks, settings dialog, close flow, timer and wake-ups.
C10_AttemptsBelowLimit ==
    (/\ TickSettlesHere
     /\ snapshot.runtime.state = "closed"
     /\ snapshot.settings.pinAttemptsLimit # None)
    => snapshot.runtime.attemptsMade < Val(snapshot.settings.pinAttemptsLimit)

-----------------------------------------------------------------------------
(* Further properties of the reducer, checked under SpecReduce. *)

\* the precondition the event table gives for the event of a call
PreconditionHolds(step) ==
    CASE step.event.type \in {"open", "wrongPin", "tick", "survive"} ->
            step.before.runtime.state = "closed"
      [] step.event.type = "close" -> step.before.runtime.state = "open"
      [] step.event.type = "explode" -> TRUE
      [] OTHER -> step.before.runtime.state = "destroyed"

\* C11: for every snapshot and every event kind (open, close, wrongPin,
\* tick, explode, survive, startNew) reduce returns a pair and never throws;
\* when the precondition of the event does not hold, the returned snapshot
\* is the input snapshot and nothing is emitted.
C11_TotalAndNoOp ==
    \A i \in DOMAIN log :
       /\ log[i].returned
       /\ ~PreconditionHolds(log[i])
          => log[i].after = log[i].before /\ log[i].emitted = << >>

\* C12: open on an open safe and close on a closed safe change nothing and
\* emit nothing; a second close with another pinHash and a later now does
\* not replace pinHash, closedAt or destructAt and does not reset
\* attemptsMade.
C12_RepeatedOpenCloseNoOp ==
    \A i \in DOMAIN log :
       LET st == log[i]
       IN /\ (st.event.type = "open" /\ st.before.runtime.state = "open")
             => st.after = st.before /\ st.emitted = << >>
          /\ (st.event.type = "close" /\ st.before.runtime.state = "closed")
             => /\ st.after = st.before
                /\ st.emitted = << >>
                /\ st.after.runtime.pinHash = st.before.runtime.pinHash
                /\ st.after.runtime.closedAt = st.before.runtime.closedAt
                /\ st.after.runtime.destructAt = st.before.runtime.destructAt
                /\ st.after.runtime.attemptsMade = st.before.runtime.attemptsMade

\* a close with another digest and a later time reached a closed safe that
\* has attempts made and an armed timer
C12_Witness ==
    \E i \in DOMAIN log :
       /\ log[i].event.type = "close"
       /\ log[i].before.runtime.state = "closed"
       /\ log[i].event.pinHash # log[i].before.runtime.pinHash
       /\ Val(log[i].event.now) > Val(log[i].before.runtime.closedAt)
       /\ log[i].before.runtime.attemptsMade > 0
       /\ log[i].before.runtime.destructAt # None
       /\ log[i].before.settings.autodestructMinutes # None

\* C13: close(pinHash, now) on an open safe gives state closed with that
\* pinHash, closedAt = now, attemptsMade = 0 and destructAt = now +
\* autodestructMinutes*60000 when the minutes are set, undefined otherwise;
\* id, content and settings are unchanged and nothing is emitted.
C13_CloseEffect ==
    \A i \in DOMAIN log :
       LET st == log[i]
           minutes == st.before.settings.autodestructMinutes
       IN (st.event.type = "close" /\ st.before.runtime.state = "open")
          => /\ st.after.runtime.state = "closed"
             /\ st.after.runtime.pinHash = st.event.pinHash
             /\ st.after.runtime.closedAt = st.event.now
             /\ st.after.runtime.attemptsMade = 0
             /\ minutes # None =>
                   st.after.runtime.destructAt
                      = Some(Val(st.event.now) + Val(minutes) * 60000)
             /\ minutes = None => st.after.runtime.destructAt = None
             /\ st.after.id = st.before.id
             /\ st.after.content = st.before.content
             /\ st.after.settings = st.before.settings
             /\ st.emitted = << >>

\* a safe with content and one minute set was closed one minute after 0
C13_Witness ==
    \E i \in DOMAIN log :
       /\ log[i].event.type = "close"
       /\ log[i].before.runtime.state = "open"
       /\ log[i].before.settings.autodestructMinutes = Some(1)
       /\ log[i].before.content.text = "secret"
       /\ log[i].event.now = Some(60000)
       /\ log[i].after.runtime.destructAt = Some(120000)
       /\ log[i].after.runtime.closedAt = Some(60000)

\* C14: open on a closed safe gives state open with attemptsMade = 0 and
\* pinHash, closedAt and destructAt cleared; id, content and settings are
\* those from before and nothing is emitted.
C14_OpenEffect ==
    \A i \in DOMAIN log :
       LET st == log[i]
       IN (st.event.type = "open" /\ st.before.runtime.state = "closed")
          => /\ st.after.runtime.state = "open"
             /\ st.after.runtime.attemptsMade = 0
             /\ st.after.runtime.pinHash = None
             /\ st.after.runtime.closedAt = None
             /\ st.after.runtime.destructAt = None
             /\ st.after.id = st.before.id
             /\ st.after.content = st.before.content
             /\ st.after.settings = st.before.settings
             /\ st.emitted = << >>

\* a closed safe with content, attempts made and an armed timer was opened
C14_Witness ==
    \E i \in DOMAIN log :
       /\ log[i].event.type = "open"
       /\ log[i].before.runtime.state = "closed"
       /\ log[i].before.runtime.attemptsMade > 0
       /\ log[i].before.runtime.destructAt # None
       /\ log[i].before.content.text = "secret"
       /\ log[i].after.runtime.state = "open"

\* C15: the startNew event replaces the snapshot with a freshly spawned
\* open safe and emits nothing.
C15_StartNewRespawns ==
    \A i \in DOMAIN log :
       log[i].event.type = "startNew"
       => /\ log[i].returned
          /\ FreshSafe(log[i].after)
          /\ log[i].after.id # log[i].before.id
          /\ log[i].emitted = << >>
          /\ i = Len(log) => snapshot = log[i].after

-----------------------------------------------------------------------------
(* The dispatch function on its own: the page started from any stored       *)
(* record at any time, then dispatch called with any event and the pending  *)
(* timeout fired; the log keeps the reduce calls and the saveSnapshot,      *)
(* scheduleTimer and render calls of the last handler, in order.            *)

StoredSnapshots ==
    {[id |-> 0,
      content |-> [text |-> "secret", imageDataUrl |-> None],
      settings |-> [language |-> "en", survivalEnabled |-> e,
                    survivalChance |-> None, autodestructMinutes |-> m,
                    pinAttemptsLimit |-> l],
      runtime |-> rt] :
        e \in BOOLEAN, m \in MinuteChoices, l \in LimitChoices,
        rt \in AnyRuntime}

\* a text that is not JSON
Garbled == [parses |-> FALSE, value |-> "{"]

\* a record of a version the migration table has no entry for
Unmigratable(s) == Some(stringify([v |-> -1, data |-> jsonSnapshot(s)]))

\* a record written before the versioned wrapper existed
Legacy(s) == Some(stringify(jsonSnapshot(s)))

\* the snapshots of StoredSnapshots that differ from a spawned safe in every
\* part, for the records the loader has to tell apart
MarkedSnapshots ==
    {s \in StoredSnapshots :
        /\ s.runtime.state = "closed"
        /\ s.runtime.attemptsMade = 1
        /\ s.runtime.destructAt # None
        /\ s.settings.survivalEnabled
        /\ s.settings.pinAttemptsLimit = Some(MaxLimit)}

StoredRecords ==
    {None, Some(Garbled)}
    \cup {saveSnapshot(s) : s \in StoredSnapshots}
    \cup {Unmigratable(s) : s \in MarkedSnapshots}
    \cup {Legacy(s) : s \in MarkedSnapshots}

\* the state a handler leaves behind, its calls kept in the log
Settle(app) ==
    /\ ~app.starved
    /\ app.spawned <= MaxSpawns + 1
    /\ app.snapshot.runtime.attemptsMade <= MaxAttempts
    /\ snapshot' = app.snapshot
    /\ timerId' = app.timerId
    /\ timeouts' = app.timeouts
    /\ stored' = app.stored
    /\ spawned' = app.spawned
    /\ log' = app.steps
    /\ closeInfo' = app.cycle
    /\ UNCHANGED <<now, settingsOpen, closeFlow, pinChecks,
                   destructTimer, readers, overlay>>

Started(app, t) ==
    /\ ~app.starved
    /\ snapshot = app.snapshot
    /\ timerId = app.timerId
    /\ timeouts = app.timeouts
    /\ stored = app.stored
    /\ spawned = app.spawned
    /\ log = app.steps
    /\ closeInfo = app.cycle
    /\ now = t
    /\ settingsOpen = FALSE
    /\ closeFlow = FALSE
    /\ pinChecks = [p \in Pins |-> 0]
    /\ destructTimer = NotStarted
    /\ readers = {}
    /\ overlay = FALSE

InitDispatch ==
    \E raw \in StoredRecords, t \in Times :
       LET r0 == startup(raw, t, << >>)
       IN IF ~r0.starved THEN Started(r0, t)
          ELSE \E a \in Draws : Started(startup(raw, t, << a >>), t)

DispatchOpen == Handling(Handler, Ev("open"), Settle)
DispatchClose ==
    \E pin \in ClosePins : Handling(Handler, CloseEv(hashPin(pin), now), Settle)
DispatchWrongPin == Handling(Handler, Ev("wrongPin"), Settle)
\* faulty variant: the tick carries the time the page was loaded at
DispatchTickStale == Handling(Handler, TickEv(0), Settle)
DispatchTick == Handling(Handler, TickEv(now), Settle)
DispatchExplode == Handling(Handler, Ev("explode"), Settle)

\* a pending timeout fires, at its deadline or later
TimeoutFires ==
    \E d \in timeouts :
       /\ now >= d
       /\ Handling(LAMBDA draws : TimeoutHandler(draws, d), TickEv(now), Settle)

\* time passes between two handlers
Elapse ==
    /\ \E t \in Times : t > now /\ now' = t
    /\ log' = << >>
    /\ UNCHANGED <<snapshot, closeInfo, timerId, timeouts, spawned, stored,
                   settingsOpen, closeFlow, pinChecks,
                   destructTimer, readers, overlay>>

NextDispatch ==
    \/ DispatchOpen
    \/ DispatchClose
    \/ DispatchWrongPin
    \/ DispatchTick
    \/ DispatchExplode
    \/ TimeoutFires
    \/ Elapse

SpecDispatch == InitDispatch /\ [][NextDispatch]_vars

-----------------------------------------------------------------------------
(* The open button among the other handlers: the digest of the entered PIN  *)
(* arrives in a later task, and any handler may have run in between.        *)

\* the state the open button's handler leaves behind once the digest of pin
\* is there, its calls kept in the log
SettleDigest(app, pin) ==
    /\ ~app.starved
    /\ app.spawned <= MaxSpawns + 1
    /\ app.snapshot.runtime.attemptsMade <= MaxAttempts
    /\ snapshot' = app.snapshot
    /\ timerId' = app.timerId
    /\ timeouts' = app.timeouts
    /\ stored' = app.stored
    /\ spawned' = app.spawned
    /\ log' = app.steps
    /\ closeInfo' = app.cycle
    /\ UNCHANGED <<destructTimer, readers, overlay>>
    /\ pinChecks' = [pinChecks EXCEPT ![pin] = @ - 1]
    /\ UNCHANGED <<now, settingsOpen, closeFlow>>

\* renderClosed: open button, from the digest on
DigestReady ==
    \E pin \in Pins :
       /\ pinChecks[pin] > 0
       /\ Handling(Handler, pinCheckEvent(snapshot, pin),
                   LAMBDA app : SettleDigest(app, pin))

NextPin ==
    \/ ClickOpen
    \/ DigestReady
    \/ DispatchClose
    \/ DispatchTick
    \/ DispatchExplode
    \/ TimeoutFires
    \/ Elapse

SpecPin == InitDispatch /\ [][NextPin]_vars

-----------------------------------------------------------------------------
(* Several clicks on the open button before any digest is there: each       *)
(* handler waits at await hashPin(pin) on its own and dispatches when it    *)
(* resumes.  Next to them the other dispatches of the page: the blow        *)
(* button, the close flow, the wake-up listeners and the timeout.           *)

MaxChecks == 2   \* open handlers waiting for a digest at once, here

\* renderClosed: open button, up to await hashPin(pin)
ClickOpenAgain ==
    /\ snapshot.runtime.state = "closed"
    /\ InFlight < MaxChecks
    /\ \E pin \in Pins : pinChecks' = [pinChecks EXCEPT ![pin] = @ + 1]
    /\ log' = << >>
    /\ UNCHANGED <<snapshot, closeInfo, now, timerId, timeouts, spawned, stored,
                   settingsOpen, closeFlow, destructTimer, readers, overlay>>

\* renderClosed: blow button
DispatchBlow ==
    /\ snapshot.runtime.state = "closed"
    /\ Handling(Handler, Ev("explode"), Settle)

NextChecks ==
    \/ ClickOpenAgain
    \/ DigestReady
    \/ DispatchBlow
    \/ DispatchClose
    \/ DispatchTick
    \/ TimeoutFires
    \/ Elapse

SpecChecks == InitDispatch /\ [][NextChecks]_vars

-----------------------------------------------------------------------------
(* reduce called twice with the same arguments and a random source that     *)
(* returns the same draw.  spawnSafe takes the id of the new safe from      *)
(* crypto.randomUUID(), which is not the injected source: the two calls     *)
(* get whatever it returns, equal or not.                                   *)

Uuids == {1, 2}

ReduceTwice(event) ==
    \E draw \in (IF event.type = "explode" /\ snapshot.settings.survivalEnabled
                 THEN Draws ELSE {0}),
       id1 \in Uuids, id2 \in Uuids :
       LET r1 == reduce(snapshot, event, draw, id1)
           r2 == reduce(snapshot, event, draw, id2)
           call(r) == [Step(event, snapshot, r, closeInfo) EXCEPT
                         !.draw = IF r.drew THEN Some(draw) ELSE None]
       IN /\ log' = << call(r1), call(r2) >>
          /\ UNCHANGED <<snapshot, closeInfo, spawned, appVars>>

TwiceOpen == ReduceTwice(Ev("open"))
TwiceClose == \E h \in Hashes, t \in Times : ReduceTwice(CloseEv(h, t))
TwiceWrongPin == ReduceTwice(Ev("wrongPin"))
TwiceTick == \E t \in Times : ReduceTwice(TickEv(t))
TwiceExplode == ReduceTwice(Ev("explode"))
TwiceSurvive == ReduceTwice(Ev("survive"))

NextTwice ==
    \/ TwiceOpen
    \/ TwiceClose
    \/ TwiceWrongPin
    \/ TwiceTick
    \/ TwiceExplode
    \/ TwiceSurvive

SpecTwice == InitReduce /\ [][NextTwice]_vars

-----------------------------------------------------------------------------
(* The content of the safe: the textarea, the file input with its           *)
(* FileReader, the image preview with its remove button, next to the        *)
(* handlers that close, open and blow the safe.                             *)

MaxReads == 1   \* FileReaders reading at once

\* renderOpen: file input change, up to reader.readAsDataURL(file)
ChooseImage ==
    /\ snapshot.runtime.state = "open"
    /\ Cardinality(readers) < MaxReads
    /\ readers' = readers \cup {snapshot.id}
    /\ log' = << >>
    /\ UNCHANGED <<snapshot, closeInfo, now, timerId, timeouts, spawned, stored,
                   settingsOpen, closeFlow, pinChecks, destructTimer, overlay>>

\* faulty variant: the result is dropped unless the reader's safe is still
\* the open one
imageLoadedGuarded(s, id, image) ==
    IF s.runtime.state = "open" /\ s.id = id
    THEN [s EXCEPT !.content.imageDataUrl = Some(image)]
    ELSE s

\* reader.onload of the reader started on safe id
imageLoaded(s, id, image) == [s EXCEPT !.content.imageDataUrl = Some(image)]

ImageLoaded ==
    /\ \E id \in readers, image \in Images :
          /\ readers' = readers \ {id}
          /\ Mutate(imageLoaded(snapshot, id, image))
    /\ UNCHANGED <<settingsOpen, closeFlow, pinChecks, destructTimer, overlay>>

\* renderOpen: click on the thumbnail
OpenPreview ==
    /\ snapshot.runtime.state = "open"
    /\ snapshot.content.imageDataUrl # None
    /\ ~overlay
    /\ overlay' = TRUE
    /\ log' = << >>
    /\ UNCHANGED <<snapshot, closeInfo, now, timerId, timeouts, spawned, stored,
                   settingsOpen, closeFlow, pinChecks, destructTimer, readers>>

\* openImagePreview: close button, Escape, click on the overlay
ClosePreview ==
    /\ overlay
    /\ overlay' = FALSE
    /\ log' = << >>
    /\ UNCHANGED <<snapshot, closeInfo, now, timerId, timeouts, spawned, stored,
                   settingsOpen, closeFlow, pinChecks, destructTimer, readers>>

\* openImagePreview: remove button
RemoveImage ==
    /\ overlay
    /\ overlay' = FALSE
    /\ Mutate([snapshot EXCEPT !.content.imageDataUrl = None])
    /\ UNCHANGED <<settingsOpen, closeFlow, pinChecks, destructTimer, readers>>

\* the handlers that close, open and blow the safe leave readers and overlay
\* as they are: render replaces what is inside #app only
NextContent ==
    \/ EditText
    \/ ChooseImage
    \/ ImageLoaded
    \/ OpenPreview
    \/ ClosePreview
    \/ RemoveImage
    \/ ClickClose
    \/ FinishClose
    \/ AbandonClose
    \/ ClickOpen
    \/ ResolvePinCheck
    \/ ClickBlow

SpecContent == Init /\ [][NextContent]_vars

-----------------------------------------------------------------------------
(* One call of startDestructTimer and what the browser and the caller do    *)
(* afterwards: the timeout fires, the page becomes visible or gets the      *)
(* focus, the caller calls the returned function, time passes.              *)

MaxEvents == 3   \* events and cleanup calls after the start

Deadlines == {None} \cup {Some(t) : t \in Times}

Delivered == Len(destructTimer.trace) - 1
             - Cardinality({i \in DOMAIN destructTimer.trace :
                              destructTimer.trace[i].type = "onExplode"})

pageVars == <<snapshot, log, closeInfo, now, timerId, timeouts, spawned,
              stored, settingsOpen, closeFlow, pinChecks, readers, overlay>>

StartTimer ==
    /\ ~destructTimer.started
    /\ \E d \in Deadlines : destructTimer' = startDestructTimer(d, now)
    /\ UNCHANGED pageVars

\* the callback of setTimeout(check, delay)
TimeoutRuns(due) ==
    /\ due \in destructTimer.pending
    /\ destructTimer' =
          check(Happened([destructTimer EXCEPT !.pending = @ \ {due}],
                         "timeout", now), now)
    /\ UNCHANGED pageVars

TimeoutCallback == \E due \in Times : now >= due /\ TimeoutRuns(due)

\* the callback runs although Date.now() is still below the time it was set
\* for (the wall clock was set back)
TimeoutCallbackEarly == \E due \in Times : now < due /\ TimeoutRuns(due)

\* the browser delivers a visibilitychange or focus event
Wake(type) ==
    /\ destructTimer.started
    /\ Delivered < MaxEvents
    /\ destructTimer' =
          IF type \in destructTimer.listeners
          THEN onWake(Happened(destructTimer, type, now), now)
          ELSE Happened(destructTimer, type, now)
    /\ UNCHANGED pageVars

Visibilitychange == Wake("visibilitychange")
Focus == Wake("focus")

\* the caller calls the function startDestructTimer returned
CallCleanup ==
    /\ destructTimer.started
    /\ Delivered < MaxEvents
    /\ destructTimer' =
          returnedCleanup(Happened(destructTimer, "cleanup", now))
    /\ UNCHANGED pageVars

NextTimer ==
    \/ StartTimer
    \/ TimeoutCallback
    \/ TimeoutCallbackEarly
    \/ Visibilitychange
    \/ Focus
    \/ CallCleanup
    \/ Elapse

SpecTimer == Init /\ [][NextTimer]_vars

-----------------------------------------------------------------------------
(* The destruct timer in time: the browser runs the callback of a pending   *)
(* timeout, and Date.now() advances.  The browser measures the delay of a   *)
(* timeout on its own clock, so the callback can run while Date.now() is    *)
(* still below the deadline.                                                *)

TimeoutFiresEarly ==
    \E d \in timeouts :
       /\ now < d
       /\ Handling(LAMBDA draws : TimeoutHandler(draws, d), TickEv(now), Settle)

NextLive ==
    \/ NextDispatch
    \/ TimeoutFiresEarly

\* a timeout whose deadline has come leaves the pending ones: its callback
\* runs (TimeoutFires), unless a handler running before it cancels it
DueTimeoutGoes ==
    \E d \in timeouts : now >= d /\ timeouts' = timeouts \ {d}

\* the browser runs the callback of a due timeout, and time advances
SpecLive ==
    /\ InitDispatch
    /\ [][NextLive]_vars
    /\ WF_timeouts(DueTimeoutGoes)
    /\ WF_vars(Elapse)

-----------------------------------------------------------------------------
(* The page and its storage: the page is loaded again, the stored item is   *)
(* changed from outside the page, and writes to the storage fail.           *)

\* what another tab, an older build or the user can leave under the key
ForeignRecords ==
    {None, Some(Garbled)}
    \cup {Unmigratable(s) : s \in MarkedSnapshots}
    \cup {Legacy(s) : s \in MarkedSnapshots}

ForeignWrite ==
    /\ \E raw \in ForeignRecords : raw # stored /\ stored' = raw
    /\ log' = << >>
    /\ UNCHANGED <<snapshot, closeInfo, now, timerId, timeouts, spawned,
                   settingsOpen, closeFlow, pinChecks,
                   destructTimer, readers, overlay>>

\* the state of a page just loaded: nothing of the previous page is left but
\* the stored item
Restarted(app) ==
    /\ ~app.starved
    /\ app.spawned <= MaxSpawns + 1
    /\ snapshot' = app.snapshot
    /\ timerId' = app.timerId
    /\ timeouts' = app.timeouts
    /\ stored' = app.stored
    /\ spawned' = app.spawned
    /\ log' = app.steps
    /\ closeInfo' = app.cycle
    /\ settingsOpen' = FALSE
    /\ closeFlow' = FALSE
    /\ UNCHANGED destructTimer
    /\ readers' = {}
    /\ overlay' = FALSE
    /\ pinChecks' = [p \in Pins |-> 0]
    /\ UNCHANGED now

Reload ==
    LET r0 == startupWith(stored, now, << >>, spawned)
    IN IF ~r0.starved THEN Restarted(r0)
       ELSE \E a \in Draws : Restarted(startupWith(stored, now, << a >>, spawned))

NextReload ==
    \/ NextDispatch
    \/ ForeignWrite
    \/ Reload

SpecReload == InitDispatch /\ [][NextReload]_vars

-----------------------------------------------------------------------------
(* Stored items that parse but are no record of this build: other JSON      *)
(* values, and records of a later schema version.                           *)

Later(data) == Some(stringify([v |-> SCHEMA_VERSION + 1, data |-> data]))

Payloads ==
    {Some(stringify(JsonNull)), Some(stringify(JsonNumber)),
     Some(stringify(JsonArray)), Some(stringify([id |-> 0])),
     Later(JsonNumber)}
    \cup {Later(jsonSnapshot(s)) : s \in MarkedSnapshots}

PayloadWrite ==
    /\ \E raw \in Payloads : raw # stored /\ stored' = raw
    /\ log' = << >>
    /\ UNCHANGED <<snapshot, closeInfo, now, timerId, timeouts, spawned,
                   settingsOpen, closeFlow, pinChecks,
                   destructTimer, readers, overlay>>

NextPayload ==
    \/ PayloadWrite
    \/ Reload

SpecPayload == InitDispatch /\ [][NextPayload]_vars

\* the module state at the start of a handler during which setItem throws
QuotaHandler(draws) == [Handler(draws) EXCEPT !.quota = TRUE]

\* a dispatch from a button, a wake-up or a timeout while the storage is full
WriteFails ==
    \E event \in {Ev("open"), Ev("wrongPin"), Ev("explode"), TickEv(now)}
                 \cup {CloseEv(hashPin(pin), now) : pin \in ClosePins} :
       Handling(QuotaHandler, event, Settle)

NextQuota ==
    \/ NextDispatch
    \/ WriteFails

\* the page loaded with nothing stored, or with a closed and armed safe
InitQuota ==
    \E raw \in {None} \cup {saveSnapshot(s) : s \in MarkedSnapshots}, t \in Times :
       LET r0 == startup(raw, t, << >>)
       IN IF ~r0.starved THEN Started(r0, t)
          ELSE \E a \in Draws : Started(startup(raw, t, << a >>), t)

SpecQuota == InitQuota /\ [][NextQuota]_vars

-----------------------------------------------------------------------------
(* Properties of dispatch and scheduleTimer, checked under SpecDispatch.    *)
(* They read the log of the last handler: reduce calls and the calls of     *)
(* saveSnapshot, scheduleTimer and render, in the order they were made.     *)

IsCall(entry) ==
    entry.event.type \in {"open", "close", "wrongPin", "tick", "explode",
                          "survive", "startNew"}

\* the reduce calls of the last handler
Calls == SelectSeq(log, IsCall)

\* C16: within one dispatch the events are reduced in emission order, each
\* against the snapshot the previous call produced, and at most one explode
\* is processed: a cascade never processes explode twice.
C16_FifoSingleExplode ==
    /\ \A i \in 1..(Len(Calls) - 1) :
          /\ Calls[i + 1].before = Calls[i].after
          /\ Calls[i].emitted # << >>
             => Calls[i + 1].event = Calls[i].emitted[1]
          /\ Calls[i].emitted = << >> => Calls[i + 1].event.type = "tick"
    /\ Calls # << >>
       => /\ Calls[Len(Calls)].emitted = << >>
          /\ snapshot = Calls[Len(Calls)].after
    /\ Cardinality({i \in DOMAIN Calls : Calls[i].event.type = "explode"}) <= 1

\* a wrongPin at the limit cascaded into explode and then survive
C16_Witness ==
    /\ Len(Calls) = 3
    /\ Calls[1].event.type = "wrongPin"
    /\ Calls[1].before.runtime.attemptsMade + 1
          = Val(Calls[1].before.settings.pinAttemptsLimit)
    /\ Calls[2].event.type = "explode"
    /\ Calls[2].before.runtime.attemptsMade > Calls[1].before.runtime.attemptsMade
    /\ Calls[3].event.type = "survive"
    /\ snapshot.runtime.attemptsMade = 0

\* C17: saveSnapshot, scheduleTimer and render are only called when no
\* emitted event is waiting in a queue: the intermediate snapshot of a
\* cascade is never saved and never rendered, also when scheduleTimer
\* re-enters dispatch.
C17_EffectsAfterDrain ==
    /\ \A i \in DOMAIN log :
          ~IsCall(log[i])
          => /\ log[i].pending = 0
             /\ (i > 1 /\ IsCall(log[i - 1]))
                => /\ log[i - 1].emitted = << >>
                   /\ log[i].before = log[i - 1].after
    /\ log # << >> => stored = saveSnapshot(snapshot)

\* the closed snapshot with attemptsMade at the limit, between wrongPin and
\* explode, was passed over: the first save saw the respawned safe
C17_Witness ==
    /\ Len(log) >= 3
    /\ log[1].event.type = "wrongPin"
    /\ Emitted(log[1], "explode")
    /\ log[1].after.runtime.state = "closed"
    /\ log[1].after.runtime.attemptsMade
          = Val(log[1].after.settings.pinAttemptsLimit)
    /\ log[2].event.type = "explode"
    /\ log[3].event.type = "saveSnapshot"
    /\ log[3].before.runtime.state = "open"

\* C18: back in the event loop, after startup and after every dispatch, a
\* destruct timeout is pending only if the safe is closed with destructAt
\* defined; after an open, a respawn or a survive none remains armed.
C18_TimeoutOnlyWhenArmed ==
    (timeouts # {} \/ timerId # None)
    => /\ snapshot.runtime.state = "closed"
       /\ snapshot.runtime.destructAt # None

\* an armed safe was opened before its deadline and no timeout is left
C18_Witness ==
    /\ log # << >>
    /\ log[1].event.type = "open"
    /\ log[1].before.runtime.state = "closed"
    /\ log[1].before.runtime.destructAt # None
    /\ Val(log[1].before.runtime.destructAt) > now
    /\ snapshot.runtime.state = "open"
    /\ timeouts = {}
    /\ timerId = None

\* C19: at most one destruct timeout is pending at any time, and it is the
\* one of the current close cycle: the timeout of an earlier cycle cannot
\* deliver a tick once the safe was reopened, respawned or closed again.
C19_SingleTimeout ==
    /\ Cardinality(timeouts) <= 1
    /\ \A d \in timeouts :
          /\ timerId = Some(d)
          /\ snapshot.runtime.state = "closed"
          /\ snapshot.runtime.destructAt = Some(d)

\* an armed safe was blown up by wrong PINs before its deadline: the safe is
\* a new one and the old timeout is gone
C19_Witness ==
    /\ log # << >>
    /\ log[1].event.type = "wrongPin"
    /\ log[1].before.runtime.destructAt # None
    /\ Val(log[1].before.runtime.destructAt) > now
    /\ Emitted(log[1], "explode")
    /\ snapshot.id # log[1].before.id
    /\ timeouts = {}

\* C20: when scheduleTimer finds the safe closed with destructAt <= now it
\* dispatches tick at once instead of arming a timeout, so after startup and
\* after every dispatch the safe is not closed with a deadline already past.
C20_PastDeadlineTicksAtOnce ==
    /\ \A i \in DOMAIN log :
          (/\ log[i].event.type = "scheduleTimer"
           /\ log[i].before.runtime.state = "closed"
           /\ log[i].before.runtime.destructAt # None
           /\ Val(log[i].before.runtime.destructAt) <= now)
          => /\ i < Len(log)
             /\ log[i + 1].event.type = "tick"
             /\ log[i + 1].event.now = Some(now)
             /\ log[i + 1].before = log[i].before
    /\ log # << >>
       => /\ ~(/\ snapshot.runtime.state = "closed"
               /\ snapshot.runtime.destructAt # None
               /\ Val(snapshot.runtime.destructAt) <= now)
          /\ \A d \in timeouts : d > now

\* the page was loaded with a stored safe whose deadline had passed: the
\* startup scheduleTimer dispatched the tick and the safe blew up
C20_Witness ==
    /\ Len(log) >= 5
    /\ log[1].event.type = "loadSnapshot"
    /\ log[2].event.type = "saveSnapshot"
    /\ log[3].event.type = "scheduleTimer"
    /\ log[3].before.runtime.state = "closed"
    /\ log[3].before.runtime.destructAt # None
    /\ Val(log[3].before.runtime.destructAt) <= now
    /\ log[4].event.type = "tick"
    /\ log[5].event.type = "explode"
    /\ timeouts = {}

-----------------------------------------------------------------------------
(* Properties of the destruct timer in time, checked under SpecLive.        *)

\* the safe is closed with deadline d
Armed(d) ==
    /\ snapshot.runtime.state = "closed"
    /\ snapshot.runtime.destructAt = Some(d)

\* the last handler reduced an explode at a time at or after d
ExplodedAtOrAfter(d) ==
    /\ now >= d
    /\ \E i \in DOMAIN log : log[i].event.type = "explode"

\* C21 as stated: every closed safe with destructAt defined is eventually
\* opened or reaches an explode evaluated at a time >= destructAt.
C21_OpenedOrExplodedAfterDeadline ==
    \A d \in Times :
       Armed(d) ~> (snapshot.runtime.state = "open" \/ ExplodedAtOrAfter(d))

\* C21, amended: when timeouts fire and time advances, a safe closed with
\* deadline d does not stay so for ever: it is opened, replaced by a new
\* safe, or disarmed by a survived explosion, which the blow button and the
\* wrong-PIN limit can bring about before d.  The timer does not bring one
\* about before d: a tick below the deadline changes nothing and leaves the
\* timeout armed.
C21_DeadlineNotLost ==
    /\ \A d \in Times : Armed(d) ~> ~Armed(d)
    /\ [](\A d \in Times :
             (Armed(d) /\ log # << >>) => (now < d /\ timeouts = {d}))
    /\ [](\A i \in DOMAIN log :
             (log[i].event.type = "tick" /\ Emitted(log[i], "explode"))
             => /\ log[i].before.runtime.destructAt # None
                /\ now >= Val(log[i].before.runtime.destructAt))

\* a tick ran below the deadline: the safe is as it was and the timeout is
\* armed for the same deadline
C21_Witness ==
    /\ log # << >>
    /\ log[1].event.type = "tick"
    /\ log[1].before.runtime.state = "closed"
    /\ log[1].before.runtime.destructAt # None
    /\ now < Val(log[1].before.runtime.destructAt)
    /\ snapshot = log[1].before
    /\ timeouts = {Val(snapshot.runtime.destructAt)}
    /\ log[Len(log)].event.type = "render"

\* C22: a tick dispatched on focus or on becoming visible carries the
\* current time; if the safe is closed and now >= destructAt the explosion
\* is resolved in that dispatch, otherwise the snapshot is left as it was.
C22_WakeUpTick ==
    (log # << >> /\ log[1].event.type = "tick")
    => LET s == log[1].before
           due == /\ s.runtime.state = "closed"
                  /\ s.runtime.destructAt # None
                  /\ now >= Val(s.runtime.destructAt)
       IN /\ log[1].event.now = Some(now)
          /\ due => /\ Len(Calls) >= 2
                    /\ Calls[2].event.type = "explode"
                    /\ Calls[2].before = s
                    /\ \/ FreshSafe(snapshot) /\ snapshot.id # s.id
                       \/ /\ Len(Calls) = 3
                          /\ Calls[3].event.type = "survive"
                          /\ snapshot.runtime.state = "closed"
                          /\ snapshot.runtime.destructAt = None
          /\ ~due => /\ Len(Calls) = 1
                     /\ snapshot = s

\* the tick found the deadline reached and the safe blew up
C22_Witness ==
    /\ Len(log) >= 2
    /\ log[1].event.type = "tick"
    /\ log[1].event.now = Some(now)
    /\ log[1].before.runtime.state = "closed"
    /\ log[1].before.runtime.destructAt = Some(now)
    /\ log[2].event.type = "explode"
    /\ snapshot.runtime.state = "open"
    /\ timeouts = {}

-----------------------------------------------------------------------------
(* Properties of the persistence functions and of the page with its storage *)

\* C23: for every valid snapshot, loadSnapshot after saveSnapshot gives the
\* snapshot back, equal field by field (an absent optional field and an
\* undefined one are both None here).
C23_RoundTrip ==
    loadSnapshot(saveSnapshot(snapshot)) = Some(snapshot)

\* a closed snapshot with every optional field it can have set, one of them
\* falsy (closedAt = 0), goes through the round trip
C23_Witness ==
    /\ snapshot.runtime.state = "closed"
    /\ snapshot.runtime.pinHash # None
    /\ snapshot.runtime.closedAt = Some(0)
    /\ snapshot.runtime.destructAt # None
    /\ snapshot.content.imageDataUrl # None
    /\ snapshot.settings.survivalChance # None
    /\ snapshot.settings.pinAttemptsLimit # None
    /\ "closedAt" \in DOMAIN Val(saveSnapshot(snapshot)).value.data.runtime
    /\ "explosionResult" \notin DOMAIN Val(saveSnapshot(snapshot)).value.data.runtime
    /\ loadSnapshot(saveSnapshot(snapshot)) = Some(snapshot)

\* the stored value is absent, does not parse, or carries a version below
\* the current one that has no migration step
Unloadable(raw) ==
    \/ raw = None
    \/ ~Val(raw).parses
    \/ /\ "v" \in DOMAIN Val(raw).value
       /\ "data" \in DOMAIN Val(raw).value
       /\ Val(raw).value.v < SCHEMA_VERSION
       /\ Val(raw).value.v \notin Migrations

\* C24: loadSnapshot returns undefined when the stored value is absent, not
\* parseable, or of an older version with no migration step; the page then
\* starts with a freshly spawned open safe, saves it and goes on to
\* scheduleTimer and render.
C24_UnloadableIsAbsent ==
    [][(/\ Unloadable(stored)
        /\ log' # << >>
        /\ log'[1].event.type = "loadSnapshot")
       => /\ loadSnapshot(stored) = None
          /\ ~log'[1].returned
          /\ FreshSafe(snapshot')
          /\ snapshot' = spawnSafe(spawned)
          /\ stored' = saveSnapshot(snapshot')
          /\ log'[Len(log')].event.type = "render"
          /\ timeouts' = {}]_vars

\* the page was loaded again over a value it could not use, while the safe
\* before the reload was another one: it runs with a new open safe, saved
C24_Witness ==
    /\ log # << >>
    /\ log[1].event.type = "loadSnapshot"
    /\ ~log[1].returned
    /\ snapshot = spawnSafe(1)
    /\ spawned = 2
    /\ stored = saveSnapshot(snapshot)
    /\ log[Len(log)].event.type = "render"

\* C25: when the storage write fails during a dispatch, the snapshot in
\* memory still is the reducer's final result and the dispatch completes:
\* scheduleTimer and render are called after the failed write, so that the
\* destruct timer matches the snapshot, and no error escapes.
C25_WriteFailureTolerated ==
    \A i \in DOMAIN log :
       (log[i].event.type = "saveSnapshot" /\ ~log[i].returned)
       => /\ snapshot = log[i].before
          /\ \E j \in (i + 1)..Len(log) : log[j].event.type = "scheduleTimer"
          /\ \E j \in (i + 1)..Len(log) : log[j].event.type = "render"
          /\ (snapshot.runtime.state = "closed" /\ snapshot.runtime.destructAt # None)
             => \/ timeouts = {Val(snapshot.runtime.destructAt)}
                \/ Val(snapshot.runtime.destructAt) <= now

\* the snapshot a page loaded now would start with
Reloaded == startupWith(stored, now, << >>, spawned).steps[1]

\* C26: after startup and after every dispatch, settings submit and content
\* edit, the stored record has the current schema version and holds the
\* snapshot in memory, so a page loaded at that point starts with the same
\* state, attemptsMade, closedAt and destructAt: a reload neither resets
\* the wrong-PIN count nor moves the deadline.
C26_StoredIsCurrent ==
    /\ stored # None
    /\ Val(stored).parses
    /\ Val(stored).value.v = SCHEMA_VERSION
    /\ loadSnapshot(stored) = Some(snapshot)
    /\ Reloaded.returned
    /\ Reloaded.after.runtime = snapshot.runtime
    /\ Reloaded.after = snapshot

\* a closed safe with a wrong PIN counted and a deadline ahead, some time
\* after it was closed: the stored record holds exactly that
C26_Witness ==
    /\ snapshot.runtime.state = "closed"
    /\ snapshot.runtime.attemptsMade = 1
    /\ snapshot.runtime.closedAt = Some(0)
    /\ snapshot.runtime.destructAt = Some(MsPerMinute)
    /\ now = MsPerMinute - 1
    /\ snapshot.content.text = "secret"
    /\ Reloaded.after.runtime.attemptsMade = 1
    /\ Reloaded.after.runtime.destructAt = Some(MsPerMinute)
    /\ stored = saveSnapshot(snapshot)

\* C27: two calls of reduce with equal snapshot, equal event and a random
\* source returning the same draw return equal next snapshots and equal
\* emitted events, for every event, an explode that is not survived
\* included.  Checked under SpecTwice.
C27_SameDrawSameResult ==
    (/\ Len(log) = 2
     /\ log[1].before = log[2].before
     /\ log[1].event = log[2].event
     /\ log[1].draw = log[2].draw)
    => /\ log[1].returned = log[2].returned
       /\ log[1].after = log[2].after
       /\ log[1].emitted = log[2].emitted

\* the handler of the open button resumes in this step with the digest of pin
DigestArrives(pin) ==
    /\ pinChecks[pin] > 0
    /\ pinChecks'[pin] = pinChecks[pin] - 1

\* C28: a closed safe becomes open with its id and content retained only in
\* a step where an open event is reduced, and that step is an open button
\* handler whose digest equals the pinHash the snapshot holds at that moment;
\* a handler that resumes with its digest dispatches open when the digest
\* equals the pinHash of the current snapshot and wrongPin in every other
\* case, whatever ran while the digest was computed.  Checked under SpecPin.
C28_OpenOnlyOnMatchingDigest ==
    [][/\ (/\ snapshot.runtime.state = "closed"
           /\ snapshot'.runtime.state = "open"
           /\ snapshot'.id = snapshot.id)
          => /\ \E i \in DOMAIN log' :
                   /\ log'[i].event.type = "open"
                   /\ log'[i].before = snapshot
             /\ snapshot'.content = snapshot.content
             /\ \E pin \in Pins :
                   /\ DigestArrives(pin)
                   /\ Some(hashPin(pin)) = snapshot.runtime.pinHash
       /\ \A pin \in Pins :
             DigestArrives(pin)
             => LET calls == SelectSeq(log', IsCall)
                IN /\ Len(calls) >= 1
                   /\ calls[1].before = snapshot
                   /\ calls[1].event.type
                         = IF Some(hashPin(pin)) = snapshot.runtime.pinHash
                           THEN "open" ELSE "wrongPin"]_vars

\* a safe spawned by an explosion on this page was closed and then opened by
\* the open button, with its text retained
C28_Witness ==
    /\ Len(Calls) = 1
    /\ Calls[1].event.type = "open"
    /\ Calls[1].before.runtime.state = "closed"
    /\ Calls[1].before.id > 0
    /\ snapshot.runtime.state = "open"
    /\ snapshot.id = Calls[1].before.id
    /\ snapshot.content = Calls[1].before.content
    /\ InFlight = 0

\* a digest arrived after the safe it was entered for had exploded: wrongPin
\* reached the open safe that replaced it
C28_StaleDigestWitness ==
    /\ Len(Calls) = 1
    /\ Calls[1].event.type = "wrongPin"
    /\ Calls[1].before.runtime.state = "open"
    /\ Calls[1].before.id > 0
    /\ InFlight = 0

\* what happened to the startDestructTimer call so far
Trace == destructTimer.trace

Explosions == {i \in DOMAIN Trace : Trace[i].type = "onExplode"}
Cleanups == {i \in DOMAIN Trace : Trace[i].type = "cleanup"}

\* C29: once the function returned by startDestructTimer has been called,
\* onExplode is not invoked any more, no timeout is pending and no listener
\* is registered, whatever event arrives later; a call with destructAt
\* undefined installs no timeout and no listener and never invokes
\* onExplode.  Checked under SpecTimer.
C29_CleanupStopsTimer ==
    /\ \A c \in Cleanups :
          /\ \A e \in Explosions : e < c
          /\ destructTimer.pending = {}
          /\ destructTimer.timeoutId = None
          /\ destructTimer.listeners = {}
    /\ (destructTimer.started /\ destructTimer.destructAt = None)
       => /\ destructTimer.pending = {}
          /\ destructTimer.listeners = {}
          /\ Explosions = {}

\* the returned function was called while the timeout was pending, and a
\* wake event arrived afterwards, past the deadline
C29_Witness ==
    /\ destructTimer.destructAt = Some(60000)
    /\ Len(Trace) = 3
    /\ Trace[1].at = 0
    /\ Trace[2].type = "cleanup"
    /\ Trace[2].at = 59999
    /\ Trace[3].type = "focus"
    /\ Trace[3].at = 60000

\* a call with destructAt undefined, and a wake event after it
C29_UndefinedWitness ==
    /\ destructTimer.started
    /\ destructTimer.destructAt = None
    /\ Len(Trace) = 2
    /\ Trace[2].type = "visibilitychange"

\* the timeout firings and wake events at or after the deadline that came
\* before any call of the returned function
DueEvents ==
    {i \in DOMAIN Trace :
        /\ Trace[i].type \in {"timeout"} \cup WakeEvents
        /\ Trace[i].at >= Val(destructTimer.destructAt)
        /\ \A c \in Cleanups : i < c}

\* C30: for a call of startDestructTimer with a destructAt in the future,
\* the first timeout firing, visibilitychange or focus event that happens at
\* a time >= destructAt before cleanup invokes onExplode; onExplode is
\* invoked by such an event only, never at a time below destructAt.
\* Checked under SpecTimer.
C30_FirstDueEventExplodes ==
    (/\ destructTimer.started
     /\ destructTimer.destructAt # None
     /\ Trace[1].at < Val(destructTimer.destructAt))
    => /\ \A i \in DueEvents :
             (\A j \in DueEvents : i <= j)
             => /\ i + 1 \in Explosions
                /\ Trace[i + 1].at = Trace[i].at
       /\ \A e \in Explosions :
             /\ Trace[e].at >= Val(destructTimer.destructAt)
             /\ e - 1 \in DueEvents

\* started at 0 for 60000: a focus event at 59999 did nothing, the timeout
\* ran early and did nothing, the visibilitychange at 60000 invoked onExplode
C30_Witness ==
    /\ destructTimer.destructAt = Some(60000)
    /\ Len(Trace) = 5
    /\ Trace[1].at = 0
    /\ Trace[2].type = "focus"
    /\ Trace[2].at = 59999
    /\ Trace[3].type = "timeout"
    /\ Trace[3].at = 59999
    /\ Trace[4].type = "visibilitychange"
    /\ Trace[4].at = 60000
    /\ Trace[5].type = "onExplode"

\* started at 0 for 60000: the timeout ran at 60000 and invoked onExplode
C30_TimeoutWitness ==
    /\ destructTimer.destructAt = Some(60000)
    /\ Len(Trace) = 3
    /\ Trace[1].at = 0
    /\ Trace[2].type = "timeout"
    /\ Trace[2].at = 60000
    /\ Trace[3].type = "onExplode"

\* C31: snapshot.content changes only in a step taken while the safe is
\* open, a step that replaces the safe by a spawned one apart; a file read
\* that completes writes its image only into the safe it was started on,
\* and only while that safe is open.  Checked under SpecContent.
C31_ContentOnlyWhileOpen ==
    [][/\ (snapshot'.id = snapshot.id /\ snapshot'.content # snapshot.content)
          => snapshot.runtime.state = "open"
       /\ \A id \in readers \ readers' :
             snapshot'.content.imageDataUrl # snapshot.content.imageDataUrl
             => id = snapshot.id]_vars

\* C32: snapshot.settings changes only in a step taken while the safe is
\* open, a step that replaces the safe by a spawned one apart: a settings
\* dialog opened on the open safe is not submitted once the safe is closed,
\* so a closed safe keeps the pinAttemptsLimit and autodestructMinutes it was
\* closed with.  Checked under Spec.
C32_SettingsOnlyWhileOpen ==
    [][(snapshot'.id = snapshot.id /\ snapshot'.settings # snapshot.settings)
       => snapshot.runtime.state = "open"]_vars

\* the explode calls of the last handler
Explodes == {i \in DOMAIN Calls : Calls[i].event.type = "explode"}

\* C33: with several PIN checks in flight, a wrongPin that reaches the
\* attempt limit emits exactly one explode, reduced next, a wrongPin below
\* the limit emits none, and no dispatch reduces more than one explode, so
\* one wrongPin never leads to more than one explode; a wrongPin or open that arrives when the safe is open
\* (it exploded and was respawned meanwhile) changes nothing and emits
\* nothing.  Checked under SpecChecks.
C33_LimitExplodesOnce ==
    (Calls # << >> /\ Calls[1].event.type \in {"wrongPin", "open"})
    => LET first == Calls[1]
           limit == first.before.settings.pinAttemptsLimit
           reached == /\ first.event.type = "wrongPin"
                      /\ first.before.runtime.state = "closed"
                      /\ limit # None
                      /\ first.before.runtime.attemptsMade + 1 >= Val(limit)
       IN /\ Emitted(first, "explode") <=> reached
          /\ ~reached => first.emitted = << >>
          /\ reached => /\ Calls[2].event.type = "explode"
                        /\ Calls[2].before = first.after
          /\ Cardinality(Explodes) <= 1
          /\ first.before.runtime.state = "open"
             => /\ first.after = first.before
                /\ first.emitted = << >>
                /\ Len(Calls) = 1
                /\ snapshot = first.before

\* a wrongPin reached the limit and the safe exploded and was respawned
\* while another PIN check was still waiting for its digest
C33_Witness ==
    /\ InFlight = 1
    /\ Len(Calls) = 2
    /\ Calls[1].event.type = "wrongPin"
    /\ Calls[1].before.runtime.attemptsMade + 1
          = Val(Calls[1].before.settings.pinAttemptsLimit)
    /\ Calls[2].event.type = "explode"
    /\ snapshot.runtime.state = "open"
    /\ snapshot.id # Calls[1].before.id

\* the second of two PIN checks resumed after the first one had blown the
\* safe: its wrongPin met the open safe
C33_LateWitness ==
    /\ InFlight = 0
    /\ Len(Calls) = 1
    /\ Calls[1].event.type = "wrongPin"
    /\ Calls[1].before.runtime.state = "open"
    /\ Calls[1].before.id > 0
    /\ closeInfo.closed

\* C34: what loadSnapshot hands to the module is either nothing or a value
\* of the SafeSnapshot shape, also for a stored item that parses but is no
\* snapshot record and for a record of a later schema version, and startup
\* runs to its end (the view is rendered) on every such item.  Checked
\* under SpecPayload.
C34_LoadedIsValidated ==
    (log # << >> /\ log[1].event.type = "loadSnapshot")
    => /\ log[1].returned => HasShape(log[1].after)
       /\ HasShape(snapshot)
       /\ log[Len(log)].event.type = "render"

\* C35: for one call of startDestructTimer, onExplode is invoked at most
\* once, whatever the order of timeout firings, visibilitychange and focus
\* events, also when destructAt is already in the past at the call.
\* Checked under SpecTimer.
C35_ExplodesAtMostOnce == Cardinality(Explosions) <= 1

\* the positions in the log where scheduleTimer re-enters dispatch: a
\* scheduleTimer call followed at once by the reduce call of its tick
Reentries ==
    {i \in 1..(Len(log) - 1) :
        log[i].event.type = "scheduleTimer" /\ IsCall(log[i + 1])}

\* the reduce calls of one dispatch: a stretch of the log made of calls only
CascadeAt(i, n) ==
    /\ i + n - 1 <= Len(log)
    /\ \A k \in i..(i + n - 1) : IsCall(log[k])

\* C36: every handler runs to its end; a dispatch reduces at most three
\* events in a row (wrongPin or tick, then explode, then survive), and
\* within one handler scheduleTimer re-enters dispatch at most once: after
\* the nested tick the safe is a spawned open one or closed with destructAt
\* cleared.  Checked under SpecDispatch.
C36_DispatchTerminates ==
    log # << >>
    => /\ log[Len(log)].event.type = "render"
       /\ \A i \in DOMAIN log : ~CascadeAt(i, 4)
       /\ \A i \in DOMAIN log :
             CascadeAt(i, 3)
             => /\ log[i].event.type \in {"wrongPin", "tick"}
                /\ log[i + 1].event.type = "explode"
                /\ log[i + 2].event.type = "survive"
       /\ Cardinality(Reentries) <= 1
       /\ \A i \in Reentries :
             /\ log[i + 1].event.type = "tick"
             /\ \/ snapshot.runtime.state = "open"
                \/ snapshot.runtime.destructAt = None

\* a wrongPin below the limit was dispatched past the deadline: scheduleTimer
\* re-entered dispatch with a tick, which exploded, and the safe survived
C36_Witness ==
    /\ Len(Calls) = 4
    /\ Calls[1].event.type = "wrongPin"
    /\ Calls[1].emitted = << >>
    /\ Cardinality(Reentries) = 1
    /\ \E i \in Reentries : CascadeAt(i + 1, 3)
    /\ snapshot.runtime.state = "closed"
    /\ snapshot.runtime.destructAt = None
    /\ log[Len(log)].event.type = "render"

\* C37: starting from a spawned or loaded safe, with the events the open
\* button, the blow button, the close flow, the timeout and the wake-up
\* listeners dispatch, every explode that is reduced meets a closed safe: an
\* open safe is never exploded.  Checked under SpecChecks.
C37_ExplodeOnlyWhenClosed ==
    \A i \in DOMAIN log :
       log[i].event.type = "explode"
       => log[i].before.runtime.state = "closed"

\* a wrongPin resumed on a safe that another PIN check had opened meanwhile,
\* a safe with an attempt limit of one: nothing exploded
C37_Witness ==
    /\ Len(Calls) = 1
    /\ Calls[1].event.type = "wrongPin"
    /\ Calls[1].before.runtime.state = "open"
    /\ Calls[1].before.settings.pinAttemptsLimit = Some(1)
    /\ closeInfo.closed
    /\ snapshot.runtime.state = "open"

\* the blow button exploded a closed safe
C37_BlowWitness ==
    /\ Calls # << >>
    /\ Calls[1].event.type = "explode"
    /\ Calls[1].before.runtime.state = "closed"
    /\ snapshot.runtime.state = "open"

\* C38: in every snapshot the reducer is given or returns, runtime.state is
\* open or closed, whatever the events: the destroyed state is never
\* produced, so render never takes the branch of the destroyed view with
\* its startNew button.  Checked under SpecReduce.
C38_NeverDestroyed ==
    /\ snapshot.runtime.state \in {"open", "closed"}
    /\ \A i \in DOMAIN log :
          /\ log[i].before.runtime.state \in {"open", "closed"}
          /\ log[i].returned => log[i].after.runtime.state \in {"open", "closed"}

\* an explode that was not survived: the closed safe was replaced by a
\* spawned open one
C38_Witness ==
    \E i \in DOMAIN log :
       /\ log[i].event.type = "explode"
       /\ log[i].before.runtime.state = "closed"
       /\ log[i].before.settings.survivalEnabled
       /\ log[i].draw = Some(99)
       /\ log[i].after.id # log[i].before.id
       /\ log[i].after.runtime.state = "open"
       /\ snapshot = log[i].after

\* C39: whenever a handler has ended and the safe is closed with destructAt
\* defined, the destruct timeout for that deadline is pending and timerId
\* names it, whatever dispatches, settings submits, content edits, wake-ups
\* and reloads came before.  Checked under Spec.
C39_ClosedTimedSafeIsArmed ==
    (snapshot.runtime.state = "closed" /\ snapshot.runtime.destructAt # None)
    => /\ timerId = snapshot.runtime.destructAt
       /\ Val(snapshot.runtime.destructAt) \in timeouts

\* the deadline of a closed safe has passed and its timeout has not run
\* yet; a settings dialog left over from the open safe has switched the
\* autodestruct setting off meanwhile
C39_Witness ==
    /\ snapshot.runtime.state = "closed"
    /\ snapshot.runtime.destructAt = Some(60000)
    /\ now = 60000
    /\ timeouts = {60000}
    /\ timerId = Some(60000)
    /\ snapshot.settings.autodestructMinutes = None

====
